---- MODULE Spec2Model ----
(***************************************************************************)
(* docker-fw: per-container iptables rules, their persisted store, the     *)
(* replay (reconciliation) engine and the dependency-ordered start.        *)
(*                                                                         *)
(* Every invocation of the tool is one process: it starts with an empty    *)
(* container cache (ccl), talks to the container runtime and to iptables,  *)
(* and exits.  An invocation is one action of the model; the functions it  *)
(* calls are operators that thread the process state                       *)
(*   p = [ccl, fw, files, hcfiles, calls, saved, rcalls, fail, rfail]      *)
(* (cache, iptables contents, rule files, host-config snapshots, the       *)
(* iptables calls issued so far, the collections saved so far, the runtime *)
(* calls issued so far, the number of -I/-A calls left before iptables     *)
(* rejects one, and the calls of the Docker API that fail).                *)
(***************************************************************************)
EXTENDS Integers, Sequences, FiniteSets, TLC

VARIABLES
    ipOf,       \* runtime: container id -> NetworkSettings.IPAddress ("" = offline)
    backend,    \* iptables: the set of rule texts currently installed
    store,      \* /var/lib/docker/containers/<id>/extraRules.json, per container id
    last,       \* the last invocation: its arguments, result and iptables calls
    deps,       \* runtime: container id -> HostConfig (Links and VolumesFrom providers)
    running,    \* runtime: containers with State.Running
    paused,     \* runtime: containers with State.Paused
    started,    \* the last start invocation: the graph it built and how it was sorted
    hostConfigs, \* /var/lib/docker/containers/<id>/backupHostConfig.json, per container id
    ccl,        \* the container cache of a running process, call by call
    answer,     \* what the last call on the cache of that process returned
    customHosts, \* /var/lib/docker/containers/<id>/customHosts.json, per container id
    etcHosts,   \* /etc/hosts inside each container: its lines, each the array of its fields
    adds,       \* the docker-fw add processes that run side by side: where each one is
    netPorts    \* runtime: container id -> NetworkSettings.Ports

cacheVars == <<ccl, answer>>

vars == <<ipOf, backend, store, last, deps, running, paused, started, hostConfigs,
          ccl, answer, customHosts, etcHosts, adds, netPorts>>

-----------------------------------------------------------------------------
(* Bounds of the model *)

\* rules a rule file may hold before further add invocations are not explored
MaxRules == 2
\* links plus volumes-from entries the runtime reports over all containers
MaxEdges == 2

-----------------------------------------------------------------------------
(* Containers, their keys and addresses *)

CIDs == {"idW", "idA", "idB"}

\* container.Name as the runtime reports it (with the leading slash)
NameOf(id) == CASE id = "idW" -> "/web" [] id = "idA" -> "/pa" [] OTHER -> "/pb"

\* container.Name[1:]
Name1(id) == CASE id = "idW" -> "web" [] id = "idA" -> "pa" [] OTHER -> "pb"

\* a short id, resolved by the runtime like the full id
ShortOf(id) == CASE id = "idW" -> "sW" [] id = "idA" -> "sA" [] OTHER -> "sB"

Keys == UNION {{id, NameOf(id), Name1(id), ShortOf(id)} : id \in CIDs}

NoContainer == "none"

\* what Docker.InspectContainer resolves a key to
Resolve(key) ==
    IF \E id \in CIDs : key \in {id, NameOf(id), Name1(id), ShortOf(id)}
    THEN CHOOSE id \in CIDs : key \in {id, NameOf(id), Name1(id), ShortOf(id)}
    ELSE NoContainer

\* addresses the bridge hands out to containers
ContainerIPs == {"172.17.0.2", "172.17.0.3", "172.17.0.4"}

DOCKER_HOST == "172.17.42.1/32"
DOCKER_CHAIN == "DOCKER"

\* ipv4 with no suffix added
withoutSuffix(ip) == ip

\* ipv4 + "/32"
Slash32(ip) ==
    CASE ip = "172.17.0.2" -> "172.17.0.2/32"
      [] ip = "172.17.0.3" -> "172.17.0.3/32"
      [] ip = "172.17.0.4" -> "172.17.0.4/32"
      [] ip = "8.8.8.8" -> "8.8.8.8/32"
      [] ip = "172.17.0.9" -> "172.17.0.9/32"
      [] OTHER -> "/32"

\* the literals of the model that matchIpv4 accepts, and the CIDR group res[4]
Ipv4Literals ==
    {"8.8.8.8", "8.8.8.8/32", "10.0.0.0/8", "172.17.0.2", "172.17.0.3", "172.17.0.9",
     "172.16.0.0/12"}
CidrGroup(lit) ==
    CASE lit = "8.8.8.8/32" -> "/32"
      [] lit = "10.0.0.0/8" -> "/8"
      [] lit = "172.16.0.0/12" -> "/12"
      [] OTHER -> ""

\* no address counts as one of Docker
neverDockerIPv4(ipv4) == FALSE

\* strings.HasPrefix(ipv4, "172.")
isDockerIPv4(ipv4) ==
    ipv4 \in {"172.17.0.2", "172.17.0.3", "172.17.0.4", "172.17.0.9",
              "172.17.0.2/32", "172.17.0.3/32", "172.17.0.4/32", "172.17.0.9/32",
              "172.17.42.1/32", "172.16.0.0/12"}

\* strings.HasSuffix(ipv4, "/32")
HasSuffix32(ipv4) ==
    ipv4 \in {"172.17.0.2/32", "172.17.0.3/32", "172.17.0.4/32", "172.17.0.9/32",
              "172.17.42.1/32", "8.8.8.8/32", "/32"}

\* ipv4[:strings.Index(ipv4, "/")] for the /32 addresses of the bridge subnet
BeforeSlash(ipv4) ==
    CASE ipv4 = "172.17.0.2/32" -> "172.17.0.2"
      [] ipv4 = "172.17.0.3/32" -> "172.17.0.3"
      [] ipv4 = "172.17.0.4/32" -> "172.17.0.4"
      [] ipv4 = "172.17.0.9/32" -> "172.17.0.9"
      [] OTHER -> "172.17.42.1"

nil == "nil"

Put(f, k, v) == [x \in DOMAIN f \cup {k} |-> IF x = k THEN v ELSE f[x]]

-----------------------------------------------------------------------------
(* Container metadata cache *)

\* a map of port bindings without a key
NoPorts == <<>>

\* docker.NeverRestart()
NeverRestart == [Name |-> "no"]

\* the zero docker.HostConfig, in the fields asGoodAs reads
ZeroHostConfig ==
    [NetworkMode |-> "", Links |-> <<>>, DNS |-> <<>>, DNSSearch |-> <<>>,
     ExtraHosts |-> <<>>, VolumesFrom |-> <<>>, Binds |-> <<>>, CapAdd |-> <<>>,
     CapDrop |-> <<>>, PublishAllPorts |-> FALSE, RestartPolicy |-> [Name |-> ""],
     Privileged |-> FALSE, PortBindings |-> NoPorts]

\* a *docker.Container: ptr tells two fetches of the same container apart
Descriptor(rt, id, ptr) ==
    [ID |-> id, IP |-> rt.ip[id], Ports |-> rt.ports[id], Running |-> id \in rt.running,
     Paused |-> id \in rt.paused, HostConfig |-> rt.deps[id], ptr |-> ptr]

\* inspects and lists count the calls of Docker.InspectContainer and of
\* Docker.ListContainers the cache has made
\* the nil *docker.Container: what a read of a key the map lacks gives
NilContainer ==
    [ID |-> "", IP |-> "", Ports |-> NoPorts, Running |-> FALSE, Paused |-> FALSE,
     HostConfig |-> ZeroHostConfig, ptr |-> 0]

EmptyCcl ==
    [containers |-> <<>>, networkAddress |-> <<>>, loadedAll |-> FALSE, nextPtr |-> 1,
     inspects |-> 0, lists |-> 0]

\* fullRefreshContainer once Docker.InspectContainer has returned container
cacheContainer(c, id, container, mustBeOnline) ==
    LET m1 == Put(c.containers, container.ID, container)
        m2 == IF id # container.ID /\ id # NameOf(container.ID)
              THEN Put(m1, id, container) ELSE m1
    IN IF mustBeOnline /\ container.IP = ""
       THEN [ccl |-> [c EXCEPT !.containers = m2, !.nextPtr = @ + 1, !.inspects = @ + 1],
             err |-> "does not have a valid IPv4 address"]
       ELSE [ccl |-> [c EXCEPT
                        !.containers = Put(m2, Name1(container.ID), container),
                        !.networkAddress =
                            IF mustBeOnline THEN Put(@, container.IP, container) ELSE @,
                        !.nextPtr = @ + 1, !.inspects = @ + 1],
             err |-> nil]

fullRefreshContainer(c, rt, id, mustBeOnline) ==
    IF Resolve(id) = NoContainer
    THEN [ccl |-> [c EXCEPT !.inspects = @ + 1], err |-> "no such container"]
    ELSE cacheContainer(c, id, Descriptor(rt, Resolve(id), c.nextPtr), mustBeOnline)

\* lookupInternal once fullRefreshContainer has returned r: the entry of cid
refreshedEntry(r, cid) ==
    IF r.err # nil THEN r
    ELSE [ccl |-> r.ccl, err |-> nil,
          container |-> IF cid \in DOMAIN r.ccl.containers
                        THEN r.ccl.containers[cid] ELSE NilContainer]

\* a lookup that fetches on every miss, whatever has been loaded
lookupAlwaysFetching(c, rt, cid, mustBeOnline) ==
    IF cid \notin DOMAIN c.containers
    THEN refreshedEntry(fullRefreshContainer(c, rt, cid, mustBeOnline), cid)
    ELSE IF mustBeOnline /\ c.containers[cid].IP = ""
         THEN [ccl |-> c, err |-> "does not have a valid IPv4 address"]
         ELSE [ccl |-> c, err |-> nil, container |-> c.containers[cid]]

lookupInternal(c, rt, cid, mustBeOnline) ==
    IF cid \notin DOMAIN c.containers
    THEN IF c.loadedAll
         THEN [ccl |-> c, err |-> "container not found in fully preloaded cache"]
         ELSE refreshedEntry(fullRefreshContainer(c, rt, cid, mustBeOnline), cid)
    ELSE IF mustBeOnline /\ c.containers[cid].IP = ""
         THEN [ccl |-> c, err |-> "does not have a valid IPv4 address"]
         ELSE [ccl |-> c, err |-> nil, container |-> c.containers[cid]]

\* RefreshContainer once fullRefreshContainer has returned r: the remap of the
\* entries it selects
remapRefreshed(r) ==
    LET m == r.ccl.containers
        toReMap == {id \in DOMAIN m : m[id].ID = id}
        remapped == [id \in DOMAIN m |-> IF id \in toReMap THEN m[m[id].ID] ELSE m[id]]
    IN IF r.err # nil THEN r
       ELSE [ccl |-> [r.ccl EXCEPT !.containers = remapped], err |-> nil]

\* RefreshContainer: forced refresh, then the remap
RefreshContainer(c, rt, cid, mustBeOnline) ==
    remapRefreshed(fullRefreshContainer(c, rt, cid, mustBeOnline))

\* a lookup that does not ask for an address
lookupAnyContainer(c, rt, cid) == lookupInternal(c, rt, cid, FALSE)

LookupOnlineContainer(c, rt, cid) == lookupInternal(c, rt, cid, TRUE)

LookupContainer(c, rt, cid) == lookupInternal(c, rt, cid, FALSE)

applySelfReduction(foundContainer, self) ==
    IF foundContainer = self THEN "." ELSE Name1(foundContainer.ID)

RECURSIVE SeqOfSet(_)
SeqOfSet(S) ==
    IF S = {} THEN <<>>
    ELSE LET x == CHOOSE y \in S : TRUE IN <<x>> \o SeqOfSet(S \ {x})

\* LoadAllContainers: the loop over the listed containers, from the first of ids
\* on; r is [ccl, err] so far
RECURSIVE refreshListed(_, _, _)
refreshListed(r, rt, ids) ==
    IF ids = <<>> \/ r.err # nil THEN r
    ELSE refreshListed(fullRefreshContainer(r.ccl, rt, Head(ids), FALSE), rt, Tail(ids))

\* LoadAllContainers once every listed container is refreshed (r): the remap
remapLoaded(r) ==
    LET m == r.ccl.containers
        toReMap == {id \in DOMAIN m : id # m[id].ID /\ id # Name1(m[id].ID)}
        remapped == [id \in DOMAIN m |-> IF id \in toReMap THEN m[m[id].ID] ELSE m[id]]
    IN IF r.err # nil THEN r
       ELSE [ccl |-> [r.ccl EXCEPT !.containers = remapped, !.loadedAll = TRUE],
             err |-> nil]

LoadAllContainers(c, rt) ==
    IF c.loadedAll THEN [ccl |-> c, err |-> nil]
    ELSE remapLoaded(refreshListed([ccl |-> [c EXCEPT !.lists = @ + 1], err |-> nil], rt,
                                   SeqOfSet(CIDs)))

\* callers reach it only after LoadAllContainers (it panics otherwise)
FindContainerByNetworkAddress(c, ipv4) ==
    IF ipv4 \notin DOMAIN c.networkAddress
    THEN [err |-> "address does not point to any container"]
    ELSE [err |-> nil, container |-> c.networkAddress[ipv4]]

\* what ParseAddress returns, and the cache it leaves
Parsed(c, ipv4, alias, err) == [ccl |-> c, ipv4 |-> ipv4, alias |-> alias, err |-> err]

\* ParseAddress: the container behind a Docker address, l being the outcome of
\* LoadAllContainers
reverseLookup(l, ipv4, self) ==
    LET f == FindContainerByNetworkAddress(l.ccl, BeforeSlash(ipv4))
    IN IF l.err # nil THEN Parsed(l.ccl, "", "", l.err)
       ELSE IF f.err # nil THEN Parsed(l.ccl, "", "", f.err)
       ELSE Parsed(l.ccl, ipv4, applySelfReduction(f.container, self), nil)

\* ParseAddress on an address; ipv4 is the address with its CIDR suffix
parseIpv4(c, rt, ipv4, self, parseContainerNames) ==
    IF isDockerIPv4(ipv4) /\ HasSuffix32(ipv4)
    THEN IF ~parseContainerNames
         THEN Parsed(c, "", "", "trying to use Docker IPv4, use an alias instead")
         ELSE reverseLookup(LoadAllContainers(c, rt), ipv4, self)
    ELSE Parsed(c, ipv4, "", nil)

\* ParseAddress on an alias, l being the outcome of its lookup
aliasAddress(l, self) ==
    IF l.err # nil THEN Parsed(l.ccl, "", "", l.err)
    ELSE IF l.container = NilContainer
    THEN Parsed(l.ccl, "", "", "panic: nil pointer dereference")
    ELSE Parsed(l.ccl, Slash32(l.container.IP), applySelfReduction(l.container, self), nil)

ParseAddress(c, rt, addressOrAlias, self, parseContainerNames) ==
    CASE addressOrAlias = "." -> Parsed(c, Slash32(self.IP), addressOrAlias, nil)
      [] addressOrAlias = "/" -> Parsed(c, DOCKER_HOST, addressOrAlias, nil)
      [] addressOrAlias \in Ipv4Literals ->
            parseIpv4(c, rt,
                      IF CidrGroup(addressOrAlias) = ""
                      THEN Slash32(addressOrAlias) ELSE addressOrAlias,
                      self, parseContainerNames)
      [] OTHER -> aliasAddress(LookupOnlineContainer(c, rt, addressOrAlias), self)

-----------------------------------------------------------------------------
(* Rule model *)

\* variant: source and destination are not compared
neverSameSourceAndDestination(source, destination) == FALSE

\* NewIptablesRule's check of a valid flow specification: rule.Source == rule.Destination
sameSourceAndDestination(source, destination) == source = destination

\* variant: a rule between two other endpoints is let through
neitherIsSelfUnnoticed(sourceAlias, destinationAlias) == FALSE

\* NewIptablesRule: rule.SourceAlias != "." && rule.DestinationAlias != "."
neitherIsSelf(sourceAlias, destinationAlias) == sourceAlias # "." /\ destinationAlias # "."

\* NewIptablesRule: source (s) and destination (d) are parsed, the flow
\* specification is validated; [p, err] or [p, err, rule]
validFlow(p, s, d, sourcePort, destPort, proto, filter) ==
    IF d.err # nil THEN [p |-> [p EXCEPT !.ccl = d.ccl], err |-> d.err]
    ELSE IF sameSourceAndDestination(s.ipv4, d.ipv4)
    THEN [p |-> [p EXCEPT !.ccl = d.ccl],
          err |-> "Cannot add rule with same source and destination"]
    ELSE IF neitherIsSelf(s.alias, d.alias)
    THEN [p |-> [p EXCEPT !.ccl = d.ccl],
          err |-> "Either source or destination must be the container itself"]
    ELSE [p |-> [p EXCEPT !.ccl = d.ccl], err |-> nil,
          rule |-> [Source |-> s.ipv4, SourceAlias |-> s.alias,
                    SourcePort |-> sourcePort,
                    Destination |-> d.ipv4, DestinationAlias |-> d.alias,
                    DestinationPort |-> destPort,
                    Protocol |-> proto, Filter |-> filter]]

\* NewIptablesRule: the source is parsed (s), the destination is parsed next
parseDestination(p, rt, self, s, sourcePort, dest, destPort, proto, filter, reverseLookupContainerIPv4) ==
    IF s.err # nil THEN [p |-> [p EXCEPT !.ccl = s.ccl], err |-> s.err]
    ELSE validFlow(p, s, ParseAddress(s.ccl, rt, dest, self, reverseLookupContainerIPv4),
                   sourcePort, destPort, proto, filter)

\* NewIptablesRule: the container is looked up (l), the source is parsed next
parseSource(p, rt, l, source, sourcePort, dest, destPort, proto, filter, reverseLookupContainerIPv4) ==
    IF l.err # nil THEN [p |-> [p EXCEPT !.ccl = l.ccl], err |-> l.err]
    ELSE parseDestination(p, rt, l.container,
                          ParseAddress(l.ccl, rt, source, l.container,
                                       reverseLookupContainerIPv4),
                          sourcePort, dest, destPort, proto, filter,
                          reverseLookupContainerIPv4)

\* NewIptablesRule: the rule, or the error; p.ccl is the process's cache
NewIptablesRule(p, rt, cid, source, sourcePort, dest, destPort, proto, filter, reverseLookupContainerIPv4) ==
    parseSource(p, rt, LookupOnlineContainer(p.ccl, rt, cid), source, sourcePort, dest,
                destPort, proto, filter, reverseLookupContainerIPv4)

\* IptablesRule.Format: the text as the sequence of its words
FormatRule(rule) ==
    <<"-s", rule.Source, "-d", rule.Destination, rule.Filter,
      "-p", rule.Protocol, "-m", rule.Protocol>>
    \o (IF rule.DestinationPort # 0
        THEN <<"--dport", ToString(rule.DestinationPort)>> ELSE <<>>)
    \o (IF rule.SourcePort # 0
        THEN <<"--sport", ToString(rule.SourcePort)>> ELSE <<>>)

\* ActiveIptablesRule.Format
Format(r) == <<r.Chain>> \o FormatRule(r.IptablesRule) \o <<"-j", r.JumpTo>>

\* IptablesRule.Aliases
Aliases(rule) ==
    (IF rule.DestinationAlias # ""
     THEN <<rule.DestinationAlias, "=", rule.Destination, "\n">> ELSE <<>>)
    \o (IF rule.SourceAlias # ""
        THEN <<rule.SourceAlias, "=", rule.Source, "\n">> ELSE <<>>)

\* variant: every rule is inserted on top
PositionOnTop(r) == 1

\* ActiveIptablesRule.Position; 0 stands for the panic on any other chain
Position(r) ==
    IF r.Chain = "FORWARD" THEN 2 ELSE IF r.Chain = "INPUT" THEN 1 ELSE 0

-----------------------------------------------------------------------------
(* Firewall backend (iptables) as the process drives it *)

\* one run of the iptables binary: -C (check), -I (insert), -A (append), -D (delete);
\* ok is exit code 0
Called(p, op, rule, pos, ok) ==
    [p EXCEPT !.calls = Append(@, [op |-> op, rule |-> rule, pos |-> pos, ok |-> ok])]

\* RuleExists: iptables --wait -C
RuleExists(p, rule) == rule \in p.fw

Checked(p, rule) == Called(p, "C", rule, 0, RuleExists(p, rule))

\* p.fail = k > 0: iptables rejects the k-th -I/-A call of the process
Rejects(p) == p.fail = 1
Counted(p) == [p EXCEPT !.fail = IF @ > 0 THEN @ - 1 ELSE 0]

internalAppend(p, containerId, rule) ==
    IF RuleExists(p, rule) THEN [p |-> Checked(p, rule), err |-> nil]
    ELSE LET p2 == Counted(Called(Checked(p, rule), "A", rule, 0, ~Rejects(p)))
         IN IF Rejects(p) THEN [p |-> p2, err |-> "cannot append rule"]
            ELSE [p |-> [p2 EXCEPT !.fw = @ \cup {rule}], err |-> nil]

internalInsert(p, pos, rule) ==
    IF RuleExists(p, rule) THEN [p |-> Checked(p, rule), err |-> nil]
    ELSE LET p2 == Counted(Called(Checked(p, rule), "I", rule, pos, ~Rejects(p)))
         IN IF Rejects(p) THEN [p |-> p2, err |-> "cannot insert iptables rule"]
            ELSE [p |-> [p2 EXCEPT !.fw = @ \cup {rule}], err |-> nil]

internalDelete(p, rule) ==
    LET p1 == Called(p, "D", rule, 0, rule \in p.fw)
    IN IF rule \in p.fw
       THEN [p |-> [p1 EXCEPT !.fw = @ \ {rule}], err |-> nil]
       ELSE [p |-> p1, err |-> "cannot delete iptables rule"]

\* InitializeFirewall: the rule the Docker daemon adds at startup, and the rule
\* for the internal docker traffic that replaces it
DockerRule == <<"FORWARD", "-o", "docker0", "-j", DOCKER_CHAIN>>
InternalTrafficRule == <<"FORWARD", "-i", "docker0", "-o", "docker0", "-j", "DOCKER">>

\* variant: a missing Docker rule is no error
ruleNotFoundIgnored(p) == [p |-> p, err |-> nil]

\* InitializeFirewall: the Docker-added rule was not found
ruleNotFound(p) == [p |-> p, err |-> "Could not find docker-added rule"]

\* InitializeFirewall: the Docker-added rule is disposed (d), insert new rule for
\* internal docker traffic on top
ruleDisposed(d) ==
    IF d.err # nil THEN d ELSE internalInsert(d.p, 1, InternalTrafficRule)

\* InitializeFirewall; pingErr is the outcome of Docker.Ping
InitializeFirewall(p, pingErr) ==
    IF pingErr # nil THEN [p |-> p, err |-> pingErr]
    ELSE IF RuleExists(p, DockerRule)
    THEN ruleDisposed(internalDelete(Checked(p, DockerRule), DockerRule))
    ELSE ruleNotFound(Checked(p, DockerRule))

-----------------------------------------------------------------------------
(* Rule store *)

NoFile == [exists |-> FALSE, Rules |-> <<>>]

\* variant: the source alias is not written
MarshalRuleNoAlias(r) ==
    [Source |-> r.IptablesRule.Source, SourceAlias |-> "",
     SourcePort |-> r.IptablesRule.SourcePort,
     Destination |-> r.IptablesRule.Destination,
     DestinationAlias |-> r.IptablesRule.DestinationAlias,
     DestinationPort |-> r.IptablesRule.DestinationPort,
     Protocol |-> r.IptablesRule.Protocol, Filter |-> r.IptablesRule.Filter,
     Chain |-> r.Chain, JumpTo |-> r.JumpTo]

\* json.Marshal of one ActiveIptablesRule: the embedded struct's fields are
\* promoted, every exported field is written
MarshalRule(r) ==
    [Source |-> r.IptablesRule.Source, SourceAlias |-> r.IptablesRule.SourceAlias,
     SourcePort |-> r.IptablesRule.SourcePort,
     Destination |-> r.IptablesRule.Destination,
     DestinationAlias |-> r.IptablesRule.DestinationAlias,
     DestinationPort |-> r.IptablesRule.DestinationPort,
     Protocol |-> r.IptablesRule.Protocol, Filter |-> r.IptablesRule.Filter,
     Chain |-> r.Chain, JumpTo |-> r.JumpTo]

\* json.Unmarshal of one element of "Rules"
UnmarshalRule(j) ==
    [IptablesRule |->
        [Source |-> j.Source, SourceAlias |-> j.SourceAlias, SourcePort |-> j.SourcePort,
         Destination |-> j.Destination, DestinationAlias |-> j.DestinationAlias,
         DestinationPort |-> j.DestinationPort,
         Protocol |-> j.Protocol, Filter |-> j.Filter],
     Chain |-> j.Chain, JumpTo |-> j.JumpTo]

\* the file the collection of container cid lives in
fileName(cid) == cid

\* IptablesRulesCollection.Save: cid is unexported and not written;
\* p.saved logs the collections the process has written
Save(p, c) ==
    [p EXCEPT !.files[fileName(c.cid)] =
                  [exists |-> TRUE,
                   Rules |-> [i \in 1..Len(c.Rules) |-> MarshalRule(c.Rules[i])]],
              !.saved = Append(@, c)]

\* LoadRules: an absent file is an empty collection and no error; the files of
\* the model are the ones Save wrote, so reading and decoding succeed
LoadRules(p, container) ==
    LET f == p.files[fileName(container.ID)]
    IN IF ~f.exists THEN [c |-> [cid |-> container.ID, Rules |-> <<>>], err |-> nil]
       ELSE [c |-> [cid |-> container.ID,
                    Rules |-> [i \in 1..Len(f.Rules) |-> UnmarshalRule(f.Rules[i])]],
             err |-> nil]

\* IptablesRulesCollection.Remove: os.Remove fails on a file that does not exist
Remove(p, c) ==
    IF ~p.files[fileName(c.cid)].exists
    THEN [p |-> p, err |-> "remove: no such file or directory"]
    ELSE [p |-> [p EXCEPT !.files[fileName(c.cid)] = NoFile], err |-> nil]

\* IptablesRulesCollection.Append
AppendRule(c, iptRule) == [c EXCEPT !.Rules = Append(@, iptRule)]

\* variant: the alias annotations are not compared
alreadyTrackedByForm(r, iptRule) == Format(r) = Format(iptRule)

\* the comparison recordRule makes: check if rule is already there
alreadyTracked(r, iptRule) ==
    /\ Format(r) = Format(iptRule)
    /\ Aliases(r.IptablesRule) = Aliases(iptRule.IptablesRule)

\* variant: the rule is added to the collection the file holds at the save
recordReloaded(p, c, iptRule) ==
    IF \E i \in 1..Len(LoadRules(p, [ID |-> c.cid]).c.Rules) :
          alreadyTracked(LoadRules(p, [ID |-> c.cid]).c.Rules[i], iptRule)
    THEN [p |-> p, err |-> nil]
    ELSE [p |-> Save(p, AppendRule(LoadRules(p, [ID |-> c.cid]).c, iptRule)), err |-> nil]

\* recordRule once LoadRules has returned the collection c: check if rule is
\* already there, add the new rule and save
recordLoaded(p, c, iptRule) ==
    IF \E i \in 1..Len(c.Rules) : alreadyTracked(c.Rules[i], iptRule)
    THEN [p |-> p, err |-> nil]
    ELSE [p |-> Save(p, AppendRule(c, iptRule)), err |-> nil]

recordRule(p, container, iptRule) ==
    LET l == LoadRules(p, container)
    IN IF l.err # nil THEN [p |-> p, err |-> l.err]
       ELSE recordLoaded(p, l.c, iptRule)

-----------------------------------------------------------------------------
(* Custom hosts: the names a container must find in its /etc/hosts *)

\* one call of the runtime API, or one step the start action takes
RuntimeCalled(p, op, id) == [p EXCEPT !.rcalls = Append(@, [op |-> op, id |-> id])]

\* LoadCustomHosts: the names in customHosts.json, none when there is no file
LoadCustomHosts(p, container) == p.chfiles[container.ID]

\* Docker.UnpauseContainer(id) as the runtime carries it out
DockerUnpauseContainer(rt, id) == [rt EXCEPT !.paused = @ \ {id}]

\* inArray
inArray(a, needle) == \E i \in 1..Len(a) : a[i] = needle

\* A hosts file is the array of its lines that are not blank, a line the array
\* of its fields: the address, then the names. updateHosts copies blank lines.
\* A line whose first field is "#" is a comment.

\* updateHosts: one custom host scanned against the fields of a line, l being
\* the outcome of its lookup; s is [p, rt, err, stdout, lines, ok, remove,
\* changed]: rewrittenLines, okContainers, removeFields and hasHostsChanges
hostScanned(s, fields, l) ==
    IF l.err # nil THEN [s EXCEPT !.p.ccl = l.ccl, !.err = l.err]
    ELSE IF ~inArray(Tail(fields), Name1(l.container.ID)) THEN [s EXCEPT !.p.ccl = l.ccl]
    ELSE IF fields[1] # l.container.IP
    THEN [s EXCEPT !.p.ccl = l.ccl, !.remove = Append(@, Name1(l.container.ID))]
    ELSE [s EXCEPT !.p.ccl = l.ccl,
                   !.ok = IF inArray(@, Name1(l.container.ID)) THEN @
                          ELSE Append(@, Name1(l.container.ID))]

\* updateHosts: the scan of a line for the custom hosts, from ch[i] on
RECURSIVE hostsScanned(_, _, _, _)
hostsScanned(s, fields, ch, i) ==
    IF i > Len(ch) \/ s.err # nil THEN s
    ELSE hostsScanned(hostScanned(s, fields, LookupOnlineContainer(s.p.ccl, s.rt, ch[i])),
                      fields, ch, i + 1)

\* updateHosts: the fields of a line without the fields to be removed
newFields(fields, removeFields) ==
    <<fields[1]>> \o SelectSeq(Tail(fields), LAMBDA field : ~inArray(removeFields, field))

\* variant: a line that is discarded counts as a change of the hosts file
discarded(s) == [s EXCEPT !.changed = TRUE]

\* updateHosts: a line of which only the address is left is discarded
onlyAddressLeft(s) == s

\* updateHosts: a line once it has been scanned
lineRewritten(s, fields) ==
    IF s.err # nil THEN s
    ELSE IF Len(s.remove) > 0
    THEN IF Len(newFields(fields, s.remove)) = 1 THEN onlyAddressLeft(s)
         ELSE [s EXCEPT !.lines = Append(@, newFields(fields, s.remove)), !.changed = TRUE]
    ELSE [s EXCEPT !.lines = Append(@, fields)]

\* updateHosts: one line of the hosts file
hostsLine(s, fields, ch) ==
    IF fields[1] = "#" THEN [s EXCEPT !.lines = Append(@, fields)]
    ELSE lineRewritten(hostsScanned([s EXCEPT !.remove = <<>>], fields, ch, 1), fields)

\* updateHosts: read existing hosts, from line k of the output of cat on
RECURSIVE readHosts(_, _, _)
readHosts(s, ch, k) ==
    IF k > Len(s.stdout) \/ s.err # nil THEN s
    ELSE readHosts(hostsLine(s, s.stdout[k], ch), ch, k + 1)

\* updateHosts: the new line of one custom host, l being the outcome of its
\* lookup
hostLine(s, l) ==
    IF l.err # nil THEN [s EXCEPT !.p.ccl = l.ccl, !.err = l.err]
    ELSE IF ~inArray(s.ok, Name1(l.container.ID))
    THEN [s EXCEPT !.p.ccl = l.ccl,
                   !.lines = Append(@, <<l.container.IP, Name1(l.container.ID)>>),
                   !.changed = TRUE]
    ELSE [s EXCEPT !.p.ccl = l.ccl]

\* updateHosts: add new hosts lines, from ch[i] on
RECURSIVE hostLines(_, _, _)
hostLines(s, ch, i) ==
    IF i > Len(ch) \/ s.err # nil THEN s
    ELSE hostLines(hostLine(s, LookupOnlineContainer(s.p.ccl, s.rt, ch[i])), ch, i + 1)

\* updateHosts: containerInject writes the new hosts file if a line has changed
injectHosts(s, c) ==
    IF s.err = nil /\ s.changed
    THEN IF "inject" \in s.p.rfail
         THEN [s EXCEPT !.p = RuntimeCalled(@, "inject", c.ID),
                        !.err = "cannot inject /etc/hosts"]
         ELSE [s EXCEPT !.p = RuntimeCalled(@, "inject", c.ID), !.rt.hosts[c.ID] = s.lines]
    ELSE s

\* Docker.PauseContainer(id) as the runtime carries it out
DockerPauseContainer(rt, id) == [rt EXCEPT !.paused = @ \cup {id}]

\* fmt.Errorf("%s", origErr): the text of the error, of a nil error too
ErrorText(origErr) == IF origErr = nil THEN "%!s(<nil>)" ELSE origErr

\* restorePaused: the error when Docker.PauseContainer has failed
repauseFailed(origErr, err) ==
    ErrorText(origErr) \o "\nadditionally, an error while re-pausing container: " \o err

\* the Docker.PauseContainer of restorePaused
repaused(s, c) ==
    IF "pause" \in s.p.rfail
    THEN [s EXCEPT !.p = RuntimeCalled(@, "pause", c.ID),
                   !.err = repauseFailed(s.err, "cannot pause container")]
    ELSE [s EXCEPT !.p = RuntimeCalled(@, "pause", c.ID),
                   !.rt = DockerPauseContainer(@, c.ID)]

\* variant: the container is paused again only when updateHosts has no error
restorePausedOnSuccess(s, c, wasPaused) ==
    IF wasPaused /\ s.err = nil THEN repaused(s, c) ELSE s

\* restorePaused: the container is paused again if updateHosts has unpaused it
restorePaused(s, c, wasPaused) ==
    IF wasPaused THEN repaused(s, c) ELSE s

\* updateHosts: exec of cat /etc/hosts in the container, unpaused if need be
execInContainer(p, rt, c) ==
    [p |-> RuntimeCalled(IF c.Paused THEN RuntimeCalled(p, "unpause", c.ID) ELSE p,
                         "exec", c.ID),
     rt |-> IF c.Paused THEN DockerUnpauseContainer(rt, c.ID) ELSE rt,
     err |-> IF "exec" \in p.rfail THEN "cannot exec in container"
             ELSE IF "exit" \in p.rfail THEN "Could not read /etc/hosts in container"
             ELSE nil,
     stdout |-> rt.hosts[c.ID], lines |-> <<>>, ok |-> <<>>, remove |-> <<>>,
     changed |-> FALSE]

\* updateHosts: Docker.UnpauseContainer has failed
unpauseFailed(p, rt, c) ==
    [p |-> RuntimeCalled(p, "unpause", c.ID), rt |-> rt, err |-> "cannot unpause container",
     stdout |-> rt.hosts[c.ID], lines |-> <<>>, ok |-> <<>>, remove |-> <<>>,
     changed |-> FALSE]

\* updateHosts: [p, rt, err, lines, changed]
updateHosts(p, rt, c, ch) ==
    IF c.Paused /\ "unpause" \in p.rfail THEN unpauseFailed(p, rt, c)
    ELSE restorePaused(
             injectHosts(hostLines(readHosts(execInContainer(p, rt, c), ch, 1), ch, 1), c),
             c, c.Paused)

\* reapplyCustomHosts once updateHosts has returned u
hostsUpdated(u) == [p |-> u.p, rt |-> u.rt, err |-> u.err]

\* reapplyCustomHosts once the lookup of target has returned l
hostsReapplied(p, rt, l) ==
    IF l.err # nil THEN [p |-> [p EXCEPT !.ccl = l.ccl], rt |-> rt, err |-> l.err]
    ELSE IF Len(LoadCustomHosts(p, l.container)) = 0
    THEN [p |-> [p EXCEPT !.ccl = l.ccl], rt |-> rt, err |-> nil]
    ELSE hostsUpdated(updateHosts([p EXCEPT !.ccl = l.ccl], rt, l.container,
                                  LoadCustomHosts(p, l.container)))

reapplyCustomHosts(p, rt, target) ==
    hostsReapplied(p, rt, LookupOnlineContainer(p.ccl, rt, target))

\* saveCustomHosts: customHosts.json is written
saveCustomHosts(p, c, ch) ==
    [RuntimeCalled(p, "saveCustomHosts", c.ID) EXCEPT !.chfiles[c.ID] = ch]

\* variant: the custom hosts are saved whether or not the name was there
alwaysSave(found) == TRUE

\* updateCustomHosts: save only if it was not already there
mustSave(found) == ~found

\* updateCustomHosts once updateHosts has returned u, ch being the names given
\* to it
customHostsUpdated(u, container, ch, found) ==
    IF u.err # nil THEN [p |-> u.p, rt |-> u.rt, err |-> u.err]
    ELSE IF mustSave(found)
    THEN [p |-> saveCustomHosts(u.p, container, ch), rt |-> u.rt, err |-> nil]
    ELSE [p |-> u.p, rt |-> u.rt, err |-> nil]

\* updateCustomHosts once the lookup of b has returned lb: the name of b is
\* added to the custom hosts ch of container unless it is found there
customHostAdded(p, rt, container, ch, lb) ==
    IF lb.err # nil THEN [p |-> [p EXCEPT !.ccl = lb.ccl], rt |-> rt, err |-> lb.err]
    ELSE customHostsUpdated(
             updateHosts([p EXCEPT !.ccl = lb.ccl], rt, container,
                         IF inArray(ch, Name1(lb.container.ID)) THEN ch
                         ELSE Append(ch, Name1(lb.container.ID))),
             container,
             IF inArray(ch, Name1(lb.container.ID)) THEN ch
             ELSE Append(ch, Name1(lb.container.ID)),
             inArray(ch, Name1(lb.container.ID)))

\* updateCustomHosts once the lookup of target has returned l
customHostsOf(p, rt, l, b) ==
    IF l.err # nil THEN [p |-> [p EXCEPT !.ccl = l.ccl], rt |-> rt, err |-> l.err]
    ELSE customHostAdded(p, rt, l.container, LoadCustomHosts(p, l.container),
                         LookupOnlineContainer(l.ccl, rt, b))

updateCustomHosts(p, rt, target, b) ==
    customHostsOf(p, rt, LookupOnlineContainer(p.ccl, rt, target), b)

-----------------------------------------------------------------------------
(* The add actions *)

\* variant: the rule is recorded whatever iptables has answered
recordAnyway(i, container, addedRule) ==
    [p |-> recordRule(i.p, container, addedRule).p, err |-> i.err]

\* the rule is recorded once iptables has taken it; i is the outcome of the
\* insert or append
recordApplied(i, container, addedRule) ==
    IF i.err # nil THEN i ELSE recordRule(i.p, container, addedRule)

addFirewallRule(p, container, iptRule) ==
    LET addedRule == [IptablesRule |-> iptRule, Chain |-> "FORWARD", JumpTo |-> DOCKER_CHAIN]
    IN recordApplied(internalInsert(p, Position(addedRule), Format(addedRule)),
                     container, addedRule)

\* AddFirewallRule once the lookup of the container has returned l
addFirewallRuleTo(p, l, iptRule) ==
    IF l.err # nil THEN [p |-> [p EXCEPT !.ccl = l.ccl], err |-> l.err]
    ELSE addFirewallRule([p EXCEPT !.ccl = l.ccl], l.container, iptRule)

AddFirewallRule(p, rt, cid, iptRule) ==
    addFirewallRuleTo(p, LookupOnlineContainer(p.ccl, rt, cid), iptRule)

\* AddInputRule once the lookup of the container has returned l
addInputRuleTo(p, l, iptRule) ==
    LET addedRule == [IptablesRule |-> iptRule, Chain |-> "INPUT", JumpTo |-> "ACCEPT"]
    IN IF l.err # nil THEN [p |-> [p EXCEPT !.ccl = l.ccl], err |-> l.err]
       ELSE recordApplied(internalInsert([p EXCEPT !.ccl = l.ccl], Position(addedRule),
                                         Format(addedRule)),
                          l.container, addedRule)

AddInputRule(p, rt, cid, iptRule) ==
    addInputRuleTo(p, LookupOnlineContainer(p.ccl, rt, cid), iptRule)

\* AddInternalRule once the lookup of the container has returned l
addInternalRuleTo(p, l, cid, iptRule) ==
    LET addedRule == [IptablesRule |-> iptRule, Chain |-> DOCKER_CHAIN, JumpTo |-> "ACCEPT"]
    IN IF l.err # nil THEN [p |-> [p EXCEPT !.ccl = l.ccl], err |-> l.err]
       ELSE recordApplied(internalAppend([p EXCEPT !.ccl = l.ccl], cid, Format(addedRule)),
                          l.container, addedRule)

AddInternalRule(p, rt, cid, iptRule) ==
    addInternalRuleTo(p, LookupOnlineContainer(p.ccl, rt, cid), cid, iptRule)

\* AddTwoWays once updateCustomHosts has returned u
twoWaysHooked(u, cid, iptRule) ==
    IF u.err # nil THEN u
    ELSE [p |-> AddInternalRule(u.p, u.rt, cid, iptRule).p, rt |-> u.rt,
          err |-> AddInternalRule(u.p, u.rt, cid, iptRule).err]

\* AddTwoWays: [p, rt, err]
AddTwoWays(p, rt, cid, iptRule) ==
    IF iptRule.SourceAlias = ""
    THEN [p |-> p, rt |-> rt, err |-> "Source must be a container id/name"]
    ELSE twoWaysHooked(updateCustomHosts(p, rt, iptRule.SourceAlias, cid), cid, iptRule)

\* container.NetworkSettings.PortMappingAPI(): web exposes port 443 and
\* publishes port 80, the other containers have no ports
PortMappingAPI(container) ==
    IF container.ID = "idW"
    THEN <<[PrivatePort |-> 0, Type |-> "tcp", IP |-> ""],
           [PrivatePort |-> 80, Type |-> "tcp", IP |-> "0.0.0.0"]>>
    ELSE <<>>

\* AllowExternal: always make IPv4 specific, unless a subnet is specified
specificIPv4(wIpv4) == IF CidrGroup(wIpv4) = "" THEN Slash32(wIpv4) ELSE wIpv4

\* AllowExternal: the rule for one port and one whitelisted address
allowedRule(container, cid, port, wIpv4) ==
    [Source |-> specificIPv4(wIpv4), SourceAlias |-> "", SourcePort |-> 0,
     Destination |-> Slash32(container.IP), DestinationAlias |-> cid,
     DestinationPort |-> port.PrivatePort, Protocol |-> port.Type,
     Filter |-> "! -i docker0 -o docker0"]

\* AllowExternal: create a rule for each whitelisted external IPv4, from
\* whitelist4[k] on; a is [p, err] so far
RECURSIVE allowWhitelist(_, _, _, _, _, _)
allowWhitelist(a, container, cid, port, whitelist4, k) ==
    IF k > Len(whitelist4) \/ a.err # nil THEN a
    ELSE allowWhitelist(addFirewallRule(a.p, container,
                                        allowedRule(container, cid, port, whitelist4[k])),
                        container, cid, port, whitelist4, k + 1)

\* AllowExternal: the loop over the ports, from ports[i] on
RECURSIVE allowPorts(_, _, _, _, _, _)
allowPorts(a, container, cid, ports, whitelist4, i) ==
    IF i > Len(ports) \/ a.err # nil THEN a
    ELSE IF ports[i].PrivatePort = 0
    THEN allowPorts(a, container, cid, ports, whitelist4, i + 1)
    ELSE IF ports[i].Type \notin {"tcp", "udp"}
    THEN [a EXCEPT !.err = "Unrecognized protocol"]
    ELSE IF ports[i].IP # "0.0.0.0"
    THEN [a EXCEPT !.err = "Unrecognized host ip"]
    ELSE allowPorts(allowWhitelist(a, container, cid, ports[i], whitelist4, 1),
                    container, cid, ports, whitelist4, i + 1)

\* AllowExternal once the lookup of the container has returned l
allowExternalTo(p, l, cid, whitelist4) ==
    IF l.err # nil THEN [p |-> [p EXCEPT !.ccl = l.ccl], err |-> l.err]
    ELSE allowPorts([p |-> [p EXCEPT !.ccl = l.ccl], err |-> nil], l.container, cid,
                    PortMappingAPI(l.container), whitelist4, 1)

AllowExternal(p, rt, cid, whitelist4) ==
    allowExternalTo(p, LookupOnlineContainer(p.ccl, rt, cid), cid, whitelist4)

\* Action.Validate; a is the parsed command line
Validate(a, action) ==
    IF ~a.sourceSeen THEN "--source is mandatory"
    ELSE IF action \in {"add-input", "add-internal", "add-two-ways"} /\ ~a.dportSeen
    THEN "--dport is mandatory"
    ELSE IF a.sportSeen /\ a.sourcePort = 0 THEN "Invalid source port specified"
    ELSE IF a.dportSeen /\ a.destPort = 0 THEN "Invalid destination port specified"
    ELSE IF a.dest = "" THEN "Invalid destination specification"
    ELSE IF a.source = "" THEN "Invalid source specification"
    ELSE nil

\* Action.ExecuteAddAction once NewIptablesRule has returned n
executeWithRule(n, rt, a, action) ==
    IF n.err # nil THEN [p |-> n.p, err |-> n.err]
    ELSE IF action = "add"
    THEN IF isDockerIPv4(n.rule.Source) /\ isDockerIPv4(n.rule.Destination)
         THEN [p |-> n.p,
               err |-> "Trying to add an external firewall rule for internal Docker traffic"]
         ELSE AddFirewallRule(n.p, rt, a.ContainerId, n.rule)
    ELSE IF action = "add-input" THEN AddInputRule(n.p, rt, a.ContainerId, n.rule)
    ELSE IF action = "add-internal" THEN AddInternalRule(n.p, rt, a.ContainerId, n.rule)
    ELSE IF action = "add-two-ways" THEN AddTwoWays(n.p, rt, a.ContainerId, n.rule)
    ELSE [p |-> n.p, err |-> "cannot execute this action"]

\* Action.ExecuteAddAction; add-two-ways returns the runtime it leaves too
ExecuteAddAction(p, rt, a, action) ==
    IF Validate(a, action) # nil THEN [p |-> p, err |-> Validate(a, action)]
    ELSE executeWithRule(NewIptablesRule(p, rt, a.ContainerId, a.source, a.sourcePort,
                                         a.dest, a.destPort, a.proto, a.filter,
                                         a.reverseLookupContainerIPv4),
                         rt, a, action)

-----------------------------------------------------------------------------
(* Reconciliation engine *)

\* variant: replay stops when the old rule cannot be deleted
notIgnored(err) == err

\* ReplayRules: `_ = internalDelete(oldRule, true)`, the error is dropped
ignored(err) == nil

\* variant: the old rule is deleted in a dry run too
removeOldRuleAlways(p, oldRule, rule, dryRun) ==
    IF rule # oldRule THEN internalDelete(p, oldRule).p ELSE p

\* ReplayRules: first, (attempt to) remove old rule
removeOldRule(p, oldRule, rule, dryRun) ==
    IF rule # oldRule
    THEN IF dryRun THEN Checked(p, oldRule) ELSE internalDelete(p, oldRule).p
    ELSE p

\* variant: changed rules are never stored again
storeAgainNever(p, c, dryRun, changed) == p

\* ReplayRules: if there was any change, store them again
storeAgain(p, c, dryRun, changed) == IF ~dryRun /\ changed THEN Save(p, c) ELSE p

\* variant: a dry run reports no change
replayExitCodeZero(dryRun, hasChanges) == 0

\* ReplayRules: the exit code once every container is done
replayExitCode(dryRun, hasChanges) == IF dryRun /\ hasChanges THEN 1 ELSE 0

\* what the body of the loop over c.Rules leaves for one rule r:
\* [p, r (updated in place), changed, hasChanges, code, err]
Replayed(p, r, changed, hasChanges, code, err) ==
    [p |-> p, r |-> r, changed |-> changed, hasChanges |-> hasChanges,
     code |-> code, err |-> err]

\* ReplayRules: the new rule was missing, a is the outcome of its append or insert
applied(a, r2, changed) ==
    IF a.err # nil
    THEN Replayed(a.p, r2, changed, FALSE, IF r2.Chain = DOCKER_CHAIN THEN 5 ELSE 6, a.err)
    ELSE Replayed(a.p, r2, changed, FALSE, 0, nil)

\* ReplayRules: check if new rule is already there, apply it if it is missing;
\* p1 is the process after the removal of the old rule, p2 after the check
applyMissing(p1, p2, container, r2, rule, changed, wouldDelete, dryRun) ==
    IF RuleExists(p1, rule) THEN Replayed(p2, r2, changed, wouldDelete, 0, nil)
    ELSE IF dryRun THEN Replayed(p2, r2, changed, TRUE, 0, nil)
    ELSE IF r2.Chain # DOCKER_CHAIN /\ Position(r2) = 0
    THEN Replayed(p2, r2, changed, FALSE, 99, "panic")
    ELSE applied(IF r2.Chain = DOCKER_CHAIN
                 THEN internalAppend(p2, NameOf(container.ID), rule)
                 ELSE internalInsert(p2, Position(r2), rule),
                 r2, changed)

\* ReplayRules: both addresses of the rule are resolved (r2), the old rule is
\* removed if the text of the rule changed
reconcile(p0, container, r, r2, oldRule, rule, dryRun) ==
    IF ~dryRun /\ rule # oldRule /\ ignored(internalDelete(p0, oldRule).err) # nil
    THEN Replayed(internalDelete(p0, oldRule).p, r2, r2 # r, FALSE, 5,
                  internalDelete(p0, oldRule).err)
    ELSE
    applyMissing(removeOldRule(p0, oldRule, rule, dryRun),
                 Checked(removeOldRule(p0, oldRule, rule, dryRun), rule),
                 container, r2, rule, r2 # r,
                 rule # oldRule /\ dryRun /\ RuleExists(p0, oldRule), dryRun)

\* ReplayRules: the destination of the rule, d being the outcome of ParseAddress
\* on its alias
replayDestination(p, container, r, r1, d, dryRun) ==
    IF d.err # nil
    THEN Replayed([p EXCEPT !.ccl = d.ccl], r1, r1 # r, FALSE, 4, d.err)
    ELSE reconcile([p EXCEPT !.ccl = d.ccl], container, r,
                   [r1 EXCEPT !.IptablesRule.Destination = d.ipv4],
                   Format(r), Format([r1 EXCEPT !.IptablesRule.Destination = d.ipv4]),
                   dryRun)

\* ReplayRules: the source of the rule, s being the outcome of ParseAddress on
\* its alias
replaySource(p, rt, container, r, s, dryRun) ==
    IF s.err # nil
    THEN Replayed([p EXCEPT !.ccl = s.ccl], r, FALSE, FALSE, 3, s.err)
    ELSE replayDestination(p, container, r, [r EXCEPT !.IptablesRule.Source = s.ipv4],
                           IF r.IptablesRule.DestinationAlias # ""
                           THEN ParseAddress(s.ccl, rt, r.IptablesRule.DestinationAlias,
                                             container, FALSE)
                           ELSE [ccl |-> s.ccl, ipv4 |-> r.IptablesRule.Destination,
                                 err |-> nil],
                           dryRun)

\* the body of the loop over c.Rules in ReplayRules, for one rule r
ReplayOne(p, rt, container, r, dryRun) ==
    replaySource(p, rt, container, r,
                 IF r.IptablesRule.SourceAlias # ""
                 THEN ParseAddress(p.ccl, rt, r.IptablesRule.SourceAlias, container, FALSE)
                 ELSE [ccl |-> p.ccl, ipv4 |-> r.IptablesRule.Source, err |-> nil],
                 dryRun)

\* the loop over c.Rules: rule i is done (o); acc is
\* [p, c, changed, hasChanges, code, err] so far
ruleReplayed(acc, i, o) ==
    IF o.err # nil THEN [acc EXCEPT !.p = o.p, !.code = o.code, !.err = o.err]
    ELSE [p |-> o.p, c |-> [acc.c EXCEPT !.Rules[i] = o.r],
          changed |-> acc.changed \/ o.changed,
          hasChanges |-> acc.hasChanges \/ o.hasChanges, code |-> 0, err |-> nil]

\* the loop over c.Rules, from rule i on
RECURSIVE ReplayCollection(_, _, _, _, _)
ReplayCollection(acc, rt, container, i, dryRun) ==
    IF i > Len(acc.c.Rules) \/ acc.err # nil THEN acc
    ELSE ReplayCollection(
             ruleReplayed(acc, i, ReplayOne(acc.p, rt, container, acc.c.Rules[i], dryRun)),
             rt, container, i + 1, dryRun)

\* the loop over containerIds
RECURSIVE ReplayContainers(_, _, _, _, _)

\* variant: the collection is stored again although a rule has failed
collectionStoredAnyway(o, rt, containerIds, dryRun) ==
    IF o.err # nil
    THEN [p |-> storeAgain(o.p, o.c, dryRun, TRUE), code |-> o.code, err |-> o.err]
    ELSE ReplayContainers(storeAgain(o.p, o.c, dryRun, o.changed), rt, Tail(containerIds),
                          dryRun, o.hasChanges \/ o.changed)

\* ReplayRules: the rules of the first of containerIds are replayed (o)
collectionReplayed(o, rt, containerIds, dryRun) ==
    IF o.err # nil THEN [p |-> o.p, code |-> o.code, err |-> o.err]
    ELSE ReplayContainers(storeAgain(o.p, o.c, dryRun, o.changed), rt, Tail(containerIds),
                          dryRun, o.hasChanges \/ o.changed)

\* ReplayRules for the first of containerIds, l being the outcome of its lookup
replayContainer(p, rt, l, containerIds, dryRun, hasChanges) ==
    LET p1 == [p EXCEPT !.ccl = l.ccl]
        ld == LoadRules(p, l.container)
    IN IF l.err # nil THEN [p |-> p1, code |-> 1, err |-> l.err]
       ELSE IF ld.err # nil THEN [p |-> p1, code |-> 2, err |-> ld.err]
       ELSE collectionReplayed(
                ReplayCollection([p |-> p1, c |-> ld.c, changed |-> FALSE,
                                  hasChanges |-> hasChanges, code |-> 0, err |-> nil],
                                 rt, l.container, 1, dryRun),
                rt, containerIds, dryRun)

ReplayContainers(p, rt, containerIds, dryRun, hasChanges) ==
    IF containerIds = <<>>
    THEN [p |-> p, code |-> replayExitCode(dryRun, hasChanges), err |-> nil]
    ELSE replayContainer(p, rt, LookupOnlineContainer(p.ccl, rt, Head(containerIds)),
                         containerIds, dryRun, hasChanges)

ReplayRules(p, rt, containerIds, dryRun) ==
    ReplayContainers(p, rt, containerIds, dryRun, FALSE)

\* DropRules: the rules of c are deleted from iptables, from rule i on
RECURSIVE deleteAll(_, _, _)
deleteAll(q, c, i) ==
    IF i > Len(c.Rules) THEN q
    ELSE deleteAll(internalDelete(q, Format(c.Rules[i])).p, c, i + 1)

\* DropRules, from the first of containerIds on
RECURSIVE DropRules(_, _, _)

\* no collection counts as empty
neverEmpty(c) == FALSE

\* DropRules: len(c.Rules) == 0
noRules(c) == Len(c.Rules) = 0

\* DropRules once the file of the first of containerIds is removed (r)
collectionRemoved(r, rt, containerIds) ==
    IF r.err # nil THEN r ELSE DropRules(r.p, rt, Tail(containerIds))

\* DropRules for the first of containerIds, l being the outcome of its lookup
dropContainer(p, rt, l, containerIds) ==
    LET p1 == [p EXCEPT !.ccl = l.ccl]
        ld == LoadRules(p, l.container)
    IN IF l.err # nil THEN [p |-> p1, err |-> l.err]
       ELSE IF ld.err # nil THEN [p |-> p1, err |-> ld.err]
       ELSE IF noRules(ld.c) THEN [p |-> p1, err |-> nil]
       ELSE collectionRemoved(Remove(deleteAll(p1, ld.c, 1), ld.c), rt, containerIds)

DropRules(p, rt, containerIds) ==
    IF containerIds = <<>> THEN [p |-> p, err |-> nil]
    ELSE dropContainer(p, rt, LookupContainer(p.ccl, rt, Head(containerIds)), containerIds)

-----------------------------------------------------------------------------
(* Dependency graph of the start action *)

\* NewNode: nodes live in the map lookup, keyed by container id; the key stands
\* for the *Node
NewNode(container) ==
    [ingress |-> 0, ID |-> container.ID, Name |-> Name1(container.ID), children |-> <<>>]

\* node.LinkTo(child) on the nodes of lookup
LinkTo(lookup, node, child) ==
    LET l1 == [lookup EXCEPT ![node].children = Append(@, child)]
    IN [l1 EXCEPT ![child].ingress = @ + 1]

\* variant: a child joins zero on every visit
childAlwaysReady(child) == TRUE

\* TopSort: child.ingress == 0, the child joins zero
childReady(child) == child.ingress = 0

\* TopSort: the loop over node.children, from child i on
RECURSIVE visitChildren(_, _, _, _)
visitChildren(lookup, zero, children, i) ==
    IF i > Len(children) THEN [lookup |-> lookup, zero |-> zero]
    ELSE LET child == children[i]
             l1 == [lookup EXCEPT ![child].ingress = @ - 1]
         IN visitChildren(l1, IF childReady(l1[child]) THEN Append(zero, child) ELSE zero,
                          children, i + 1)

\* TopSort: for len(zero) > 0
RECURSIVE popZero(_, _, _)
popZero(lookup, zero, sorted) ==
    IF Len(zero) = 0 THEN sorted
    ELSE LET node == Head(zero)
             v == visitChildren(lookup, Tail(zero), lookup[node].children, 1)
         IN popZero(v.lookup, v.zero, Append(sorted, node))

\* variant: the length of sorted is not looked at
cycleUnnoticed(sorted, arr) == FALSE

\* TopSort: len(sorted) < len(arr), the condition of panic("found cycle in DAG")
foundCycle(sorted, arr) == Len(sorted) < Len(arr)

\* SortableNodeArray.TopSort on the array arr of the nodes of lookup
TopSort(arr, lookup) ==
    LET zero == SelectSeq(arr, LAMBDA v : lookup[v].ingress = 0)
        sorted == popZero(lookup, zero, <<>>)
    IN [sorted |-> sorted, panic |-> foundCycle(sorted, arr)]

-----------------------------------------------------------------------------
(* The ls action *)

\* CachedContainerLookup.GetAllContainers: the containers of the cache, each
\* once, in the order the iteration over the map yields them
GetAllContainers(c, order) ==
    SeqOfSet({c.containers[k] : k \in {x \in DOMAIN c.containers :
                                         c.containers[x].ID = order[1]}})
        \o SeqOfSet({c.containers[k] : k \in {x \in DOMAIN c.containers :
                                               c.containers[x].ID = order[2]}})
        \o SeqOfSet({c.containers[k] : k \in {x \in DOMAIN c.containers :
                                               c.containers[x].ID = order[3]}})

\* ActiveIptablesRule.ExtrapolateAction
ExtrapolateAction(rule) ==
    CASE rule.Chain = "INPUT" /\ rule.JumpTo = "ACCEPT" -> "add-input"
      [] rule.Chain = DOCKER_CHAIN /\ rule.JumpTo = "ACCEPT" -> "add-internal"
      [] rule.Chain = "FORWARD" /\ rule.JumpTo = DOCKER_CHAIN -> "add"
      [] OTHER -> "panic: not yet implemented"

\* IptablesRule.SourceAliasOrAddress and DestinationAliasOrAddress
AliasOrAddress(alias, address) == IF alias # "" THEN alias ELSE address

\* IptablesRule.FormatAsFwAction, as the array of its words
FormatAsFwAction(rule) ==
    <<"-s", AliasOrAddress(rule.SourceAlias, rule.Source),
      "-d", AliasOrAddress(rule.DestinationAlias, rule.Destination), "-p", rule.Protocol>>
        \o (IF rule.Filter # "" THEN <<"--filter", rule.Filter>> ELSE <<>>)
        \o (IF rule.DestinationPort # 0 THEN <<"--dport", rule.DestinationPort>> ELSE <<>>)
        \o (IF rule.SourcePort # 0 THEN <<"--sport", rule.SourcePort>> ELSE <<>>)

\* ActiveIptablesRule.FormatAsFwCommand
FormatAsFwCommand(rule, target) ==
    <<ExtrapolateAction(rule), target>> \o FormatAsFwAction(rule.IptablesRule)

\* ListRules: ccl.containers[alias] is a container; the read of a key the map
\* lacks gives nil, and the Name of nil is a nil pointer dereference
aliasCached(c, alias) == alias \in DOMAIN c.containers

\* ListRules: the visual fix of an alias
visualFix(c, alias) == IF alias = "" THEN "" ELSE Name1(c.containers[alias].ID)

\* ListRules: one rule of a container; s is [p, err, out, panic], out the lines
\* printed so far
ruleListed(s, container, rule) ==
    IF \/ rule.IptablesRule.SourceAlias # ""
          /\ ~aliasCached(s.p.ccl, rule.IptablesRule.SourceAlias)
       \/ rule.IptablesRule.DestinationAlias # ""
          /\ ~aliasCached(s.p.ccl, rule.IptablesRule.DestinationAlias)
    THEN [s EXCEPT !.panic = TRUE]
    ELSE [s EXCEPT !.out =
             Append(@, FormatAsFwCommand(
                 [rule EXCEPT
                     !.IptablesRule.SourceAlias = visualFix(s.p.ccl, @),
                     !.IptablesRule.DestinationAlias = visualFix(s.p.ccl, @)],
                 Name1(container.ID)))]

\* ListRules: the rules of a container, from rules[i] on
RECURSIVE rulesListed(_, _, _, _)
rulesListed(s, container, rules, i) ==
    IF i > Len(rules) \/ s.panic THEN s
    ELSE rulesListed(ruleListed(s, container, rules[i]), container, rules, i + 1)

\* ListRules: loop through each container, from containers[k] on
RECURSIVE containersListed(_, _, _)
containersListed(s, containers, k) ==
    IF k > Len(containers) \/ s.panic THEN s
    ELSE containersListed(
             rulesListed(s, containers[k], LoadRules(s.p, containers[k]).c.Rules, 1),
             containers, k + 1)

\* ListRules: the lookups of the containers given, from the first of
\* containerIds on; r is [ccl, err, containers]
RECURSIVE lookedUp(_, _, _)
lookupListed(r, l) ==
    IF l.err # nil THEN [ccl |-> l.ccl, err |-> l.err, containers |-> r.containers]
    ELSE [ccl |-> l.ccl, err |-> nil, containers |-> Append(r.containers, l.container)]

lookedUp(r, rt, containerIds) ==
    IF containerIds = <<>> \/ r.err # nil THEN r
    ELSE lookedUp(lookupListed(r, LookupContainer(r.ccl, rt, Head(containerIds))), rt,
                  Tail(containerIds))

\* ListRules: every container when none is given, l being the outcome of
\* LoadAllContainers
allListed(l, order) ==
    [ccl |-> l.ccl, err |-> l.err,
     containers |-> IF l.err # nil THEN <<>> ELSE GetAllContainers(l.ccl, order)]

\* ListRules once the containers are known (r)
listed(p, r) ==
    IF r.err # nil
    THEN [p |-> [p EXCEPT !.ccl = r.ccl], err |-> r.err, out |-> <<>>, panic |-> FALSE]
    ELSE containersListed([p |-> [p EXCEPT !.ccl = r.ccl], err |-> nil, out |-> <<>>,
                           panic |-> FALSE],
                          r.containers, 1)

ListRules(p, rt, containerIds, order) ==
    listed(p, IF Len(containerIds) = 0 THEN allListed(LoadAllContainers(p.ccl, rt), order)
              ELSE lookedUp([ccl |-> p.ccl, err |-> nil, containers |-> <<>>], rt,
                            containerIds))

-----------------------------------------------------------------------------
(* Host-config snapshots *)

fetchSavedHostConfig(p, id) == p.hcfiles[id]

\* the number of times x occurs in the array a
Occurrences(a, x) == Cardinality({i \in 1..Len(a) : a[i] = x})

\* areEquivalentArrays: a nil first array is equivalent to anything; otherwise
\* the arrays are sorted and compared element by element
areEquivalentArrays(a, b) ==
    IF a = <<>> THEN TRUE
    ELSE /\ Len(a) = Len(b)
         /\ \A i \in 1..Len(a) : Occurrences(a, a[i]) = Occurrences(b, a[i])

\* areEquivalentArrays on two arrays made with []string{}, neither of them nil
areEquivalentSlices(a, b) ==
    /\ Len(a) = Len(b)
    /\ \A i \in 1..Len(a) : Occurrences(a, a[i]) = Occurrences(b, a[i])

\* arePortBindingsEqual: the bindings of a key, each as HostIP:HostPort
serialized(value) == [i \in 1..Len(value) |-> value[i].HostIP \o ":" \o value[i].HostPort]

\* arePortBindingsEqual: as many keys, the same keys, and for each key the same
\* serialized bindings
arePortBindingsEqual(a, b) ==
    IF Cardinality(DOMAIN a) # Cardinality(DOMAIN b) THEN FALSE
    ELSE /\ DOMAIN a = DOMAIN b
         /\ \A key \in DOMAIN a : areEquivalentSlices(serialized(a[key]), serialized(b[key]))

asGoodAs(orig, current) ==
    /\ orig.NetworkMode = current.NetworkMode
    /\ areEquivalentArrays(orig.Links, current.Links)
    /\ areEquivalentArrays(orig.DNS, current.DNS)
    /\ areEquivalentArrays(orig.DNSSearch, current.DNSSearch)
    /\ areEquivalentArrays(orig.ExtraHosts, current.ExtraHosts)
    /\ areEquivalentArrays(orig.VolumesFrom, current.VolumesFrom)
    /\ areEquivalentArrays(orig.Binds, current.Binds)
    /\ areEquivalentArrays(orig.CapAdd, current.CapAdd)
    /\ areEquivalentArrays(orig.CapDrop, current.CapDrop)
    /\ orig.PublishAllPorts = current.PublishAllPorts
    /\ orig.RestartPolicy.Name = current.RestartPolicy.Name
    /\ orig.Privileged = current.Privileged
    /\ arePortBindingsEqual(orig.PortBindings, current.PortBindings)

\* BackupHostConfig: a saved configuration without a restart policy counts as
\* one that never restarts
normalized(origHostConfig) ==
    IF origHostConfig.RestartPolicy.Name = ""
    THEN [origHostConfig EXCEPT !.RestartPolicy = NeverRestart]
    ELSE origHostConfig

\* backupHostConfig: what is marshalled, NetworkSettings.Ports standing in for
\* the port bindings when mergeNetworkSettings is set
mergedHostConfig(container, mergeNetworkSettings) ==
    IF mergeNetworkSettings THEN [container.HostConfig EXCEPT !.PortBindings = container.Ports]
    ELSE container.HostConfig

backupHostConfig(p, container, mergeNetworkSettings) ==
    [RuntimeCalled(p, "backup", container.ID) EXCEPT
        !.hcfiles[container.ID] =
            [exists |-> TRUE, HostConfig |-> mergedHostConfig(container, mergeNetworkSettings)]]

\* BackupHostConfig, from the first of containerIds on
RECURSIVE BackupHostConfig(_, _, _, _, _)

\* BackupHostConfig for the first of containerIds, l being the outcome of its lookup
backupContainer(p, rt, l, containerIds, mergeNetworkSettings, failOnChange) ==
    LET p1 == [p EXCEPT !.ccl = l.ccl]
        orig == fetchSavedHostConfig(p, l.container.ID)
    IN IF l.err # nil THEN [p |-> p1, err |-> l.err]
       ELSE IF ~l.container.Running THEN [p |-> p1, err |-> "is not running"]
       ELSE IF /\ failOnChange
               /\ orig.exists
               /\ ~asGoodAs(normalized(orig.HostConfig), l.container.HostConfig)
       THEN [p |-> p1, err |-> "has inconsistently changed host configuration"]
       ELSE BackupHostConfig(backupHostConfig(p1, l.container, mergeNetworkSettings), rt,
                             Tail(containerIds), mergeNetworkSettings, failOnChange)

BackupHostConfig(p, rt, containerIds, mergeNetworkSettings, failOnChange) ==
    IF containerIds = <<>> THEN [p |-> p, err |-> nil]
    ELSE backupContainer(p, rt, LookupOnlineContainer(p.ccl, rt, Head(containerIds)),
                         containerIds, mergeNetworkSettings, failOnChange)

-----------------------------------------------------------------------------
(* The start action *)

\* the address the bridge gives a container that starts: the lowest free one
AddressPool == <<"172.17.0.2", "172.17.0.3", "172.17.0.4">>
FreeAddress(rt) ==
    AddressPool[CHOOSE i \in 1..Len(AddressPool) :
                    /\ \A id \in CIDs : rt.ip[id] # AddressPool[i]
                    /\ \A j \in 1..(i - 1) : \E id \in CIDs : rt.ip[id] = AddressPool[j]]

\* Docker.StartContainer(id, hostConfig) as the runtime carries it out
DockerStartContainer(rt, id, hostConfig) ==
    [rt EXCEPT !.running = @ \cup {id}, !.ip[id] = FreeAddress(rt), !.deps[id] = hostConfig]

\* every container counts as one of the list
arrayContainsAny(haystack, needle) == TRUE

arrayContains(haystack, needle) == \E i \in 1..Len(haystack) : haystack[i].ID = needle.ID

\* startAndSave: the outcome [p, rt, err] once RefreshContainer has returned r
refreshed(p, rt, r) == [p |-> [p EXCEPT !.ccl = r.ccl], rt |-> rt, err |-> r.err]

\* startAndSave: the host configuration the container is started with, the saved
\* one if there is one (fixHostConfig only rewrites the text of the links)
hostConfigToStart(p, container) ==
    IF fetchSavedHostConfig(p, container.ID).exists
    THEN fetchSavedHostConfig(p, container.ID).HostConfig
    ELSE container.HostConfig

\* startAndSave after Docker.StartContainer, rt1 being the runtime it leaves
refreshStarted(p, rt1, container) ==
    refreshed(RuntimeCalled(p, "start", container.ID), rt1,
              RefreshContainer(p.ccl, rt1, container.ID, TRUE))

\* startAndSave: [p, rt, err]
startAndSave(p, rt, container) ==
    refreshStarted(p, DockerStartContainer(rt, container.ID, hostConfigToStart(p, container)),
                   container)

\* internalStartContainers: one id is normalized, l being the outcome of its lookup
normalizeId(n, l) ==
    IF l.err # nil THEN [n EXCEPT !.ccl = l.ccl, !.err = l.err]
    ELSE [ccl |-> l.ccl, containers |-> Append(n.containers, l.container),
          normalizedIds |-> Append(n.normalizedIds, l.container.ID), err |-> nil]

\* internalStartContainers: normalize all container ids, from the first of
\* containerIds on; n is [ccl, containers, normalizedIds, err] so far
RECURSIVE normalizeIds(_, _, _)
normalizeIds(n, rt, containerIds) ==
    IF containerIds = <<>> \/ n.err # nil THEN n
    ELSE normalizeIds(normalizeId(n, LookupContainer(n.ccl, rt, Head(containerIds))),
                      rt, Tail(containerIds))

\* internalStartContainers: the node of a container, created when lookup has none
withNode(lookup, container) ==
    IF container.ID \in DOMAIN lookup THEN lookup
    ELSE Put(lookup, container.ID, NewNode(container))

\* internalStartContainers: one provider of the container of node is linked, l
\* being the outcome of its lookup; g is [ccl, lookup, err] so far
linkProvider(g, l, containers, node, pullDeps) ==
    IF l.err # nil THEN [ccl |-> l.ccl, lookup |-> g.lookup, err |-> l.err]
    ELSE IF ~pullDeps /\ ~arrayContains(containers, l.container)
    THEN [ccl |-> l.ccl, lookup |-> g.lookup,
          err |-> "is not specified in list and no --pull-deps specified"]
    ELSE [ccl |-> l.ccl,
          lookup |-> LinkTo(withNode(g.lookup, l.container), l.container.ID, node),
          err |-> nil]

\* internalStartContainers: the loop over the Links (or VolumesFrom) of the
\* container of node, from provider i on
RECURSIVE linkProviders(_, _, _, _, _, _, _)
linkProviders(g, rt, containers, node, providers, i, pullDeps) ==
    IF i > Len(providers) \/ g.err # nil THEN g
    ELSE linkProviders(linkProvider(g, LookupContainer(g.ccl, rt, providers[i]), containers,
                                    node, pullDeps),
                       rt, containers, node, providers, i + 1, pullDeps)

\* internalStartContainers: the links, then the volume providers of one container
linkContainer(g, rt, containers, container, pullDeps) ==
    linkProviders(
        linkProviders([g EXCEPT !.lookup = withNode(@, container)], rt, containers,
                      container.ID, container.HostConfig.Links, 1, pullDeps),
        rt, containers, container.ID, container.HostConfig.VolumesFrom, 1, pullDeps)

\* internalStartContainers: build the sortable graph, from container k on
RECURSIVE buildGraph(_, _, _, _, _)
buildGraph(g, rt, containers, k, pullDeps) ==
    IF k > Len(containers) \/ g.err # nil THEN g
    ELSE buildGraph(linkContainer(g, rt, containers, containers[k], pullDeps),
                    rt, containers, k + 1, pullDeps)

\* internalStartContainers: the pause of a node that is running by now, and the
\* refresh of a node whose state changed; s is the outcome [p, rt, err] of its start
pauseAndRefresh(s, container, pausing) ==
    IF s.err # nil THEN s
    ELSE IF pausing
    THEN refreshed(RuntimeCalled(s.p, "pause", container.ID),
                   DockerPauseContainer(s.rt, container.ID),
                   RefreshContainer(s.p.ccl, DockerPauseContainer(s.rt, container.ID),
                                    container.ID, TRUE))
    ELSE IF ~container.Running
    THEN refreshed(s.p, s.rt, RefreshContainer(s.p.ccl, s.rt, container.ID, TRUE))
    ELSE s

\* a pause for every node of a start with --paused
mustPauseAny(container, startPaused) == startPaused

\* internalStartContainers: startPaused && !container.State.Paused
mustPause(container, startPaused) == startPaused /\ ~container.Paused

\* internalStartContainers: one sorted node, l being the outcome of its lookup
driveNode(s, l, startPaused) ==
    IF l.err # nil THEN [p |-> [s.p EXCEPT !.ccl = l.ccl], rt |-> s.rt, err |-> l.err]
    ELSE pauseAndRefresh(IF ~l.container.Running
                         THEN startAndSave([s.p EXCEPT !.ccl = l.ccl], s.rt, l.container)
                         ELSE [p |-> [s.p EXCEPT !.ccl = l.ccl], rt |-> s.rt, err |-> nil],
                         l.container, mustPause(l.container, startPaused))

\* internalStartContainers: the loop over the sorted nodes, from node i on;
\* s is [p, rt, err] so far
RECURSIVE driveNodes(_, _, _, _, _)
driveNodes(s, allNodes, i, startPaused, dryRun) ==
    IF i > Len(allNodes) \/ s.err # nil THEN s
    ELSE IF dryRun THEN driveNodes(s, allNodes, i + 1, startPaused, dryRun)
    ELSE driveNodes(driveNode(s, LookupContainer(s.p.ccl, s.rt, allNodes[i]), startPaused),
                    allNodes, i + 1, startPaused, dryRun)

\* what internalStartContainers returns: trace is the graph it built and how
\* the graph was sorted
Started(p, rt, normalizedIds, err, trace) ==
    [p |-> p, rt |-> rt, normalizedIds |-> normalizedIds, err |-> err, trace |-> trace]

\* the trace of a start that did not get to the sort
Untraced ==
    [reached |-> FALSE, lookup |-> <<>>, allNodes |-> <<>>, sorted |-> <<>>, panic |-> FALSE]

\* internalStartContainers: the host configurations are saved (b)
backedUp(n, trace, rt, b) == Started(b.p, rt, n.normalizedIds, b.err, trace)

\* internalStartContainers: save the host configurations, d being the outcome
\* of the loop over the sorted nodes
backupStarted(n, trace, d, dryRun) ==
    IF d.err # nil THEN Started(d.p, d.rt, n.normalizedIds, d.err, trace)
    ELSE backedUp(n, trace, d.rt,
                  IF dryRun THEN [p |-> d.p, err |-> nil]
                  ELSE BackupHostConfig(d.p, d.rt, n.normalizedIds, TRUE, TRUE))

\* internalStartContainers once the graph g is sorted: t is what TopSort returns
\* on allNodes
startSorted(p, rt, n, g, allNodes, t, startPaused, dryRun) ==
    LET trace == [reached |-> TRUE, lookup |-> g.lookup, allNodes |-> allNodes,
                  sorted |-> t.sorted, panic |-> t.panic]
    IN IF t.panic
       THEN Started([p EXCEPT !.ccl = g.ccl], rt, n.normalizedIds, "found cycle in DAG",
                    trace)
       ELSE backupStarted(n, trace,
                          driveNodes([p |-> [p EXCEPT !.ccl = g.ccl], rt |-> rt,
                                      err |-> nil],
                                     t.sorted, 1, startPaused, dryRun),
                          dryRun)

\* internalStartContainers: the nodes of the map lookup go into an array, in the
\* order the iteration over the map yields them, and the array is sorted
sortGraph(p, rt, n, g, allNodes, startPaused, dryRun) ==
    startSorted(p, rt, n, g, allNodes, TopSort(allNodes, g.lookup), startPaused, dryRun)

\* internalStartContainers once the graph is built (g)
startGraph(p, rt, n, g, startPaused, dryRun, order) ==
    IF g.err # nil
    THEN Started([p EXCEPT !.ccl = g.ccl], rt, n.normalizedIds, g.err, Untraced)
    ELSE sortGraph(p, rt, n, g, SelectSeq(order, LAMBDA id : id \in DOMAIN g.lookup),
                   startPaused, dryRun)

\* internalStartContainers once the ids are normalized (n)
startNormalized(p, rt, n, startPaused, pullDeps, dryRun, order) ==
    IF n.err # nil
    THEN Started([p EXCEPT !.ccl = n.ccl], rt, n.normalizedIds, n.err, Untraced)
    ELSE startGraph(p, rt, n,
                    buildGraph([ccl |-> n.ccl, lookup |-> <<>>, err |-> nil], rt,
                               n.containers, 1, pullDeps),
                    startPaused, dryRun, order)

\* internalStartContainers; order is the order in which the iteration over the
\* map lookup yields its nodes
internalStartContainers(p, rt, containerIds, startPaused, pullDeps, dryRun, order) ==
    startNormalized(p, rt,
                    normalizeIds([ccl |-> p.ccl, containers |-> <<>>,
                                  normalizedIds |-> <<>>, err |-> nil], rt, containerIds),
                    startPaused, pullDeps, dryRun, order)

\* StartContainers: restore custom hosts modifications, from the first id on;
\* r is [p, rt, err] so far
RECURSIVE reapplyAll(_, _)
reapplyAll(r, ids) ==
    IF ids = <<>> \/ r.err # nil THEN r
    ELSE reapplyAll(reapplyCustomHosts(r.p, r.rt, Head(ids)), Tail(ids))

\* what StartContainers returns, and the exit code of the process
Exited(p, rt, code, err, trace) ==
    [p |-> p, rt |-> rt, code |-> code, err |-> err, trace |-> trace]

\* StartContainers: the containers are up (i), their rules are replayed (r)
startReplayed(i, h, r) == Exited(r.p, h.rt, r.code, r.err, i.trace)

\* StartContainers: the custom hosts are restored (h), the rules are replayed
replayStarted(i, h, dryRun) ==
    IF h.err # nil THEN Exited(h.p, h.rt, 128, h.err, i.trace)
    ELSE IF Len(i.normalizedIds) = 0 THEN Exited(h.p, h.rt, 0, nil, i.trace)
    ELSE startReplayed(i, h, ReplayRules(RuntimeCalled(h.p, "replay", ""), h.rt,
                                         i.normalizedIds, dryRun))

\* custom hosts and replay whatever internalStartContainers has returned
restoreAnyway(i, dryRun) ==
    replayStarted(i, reapplyAll([p |-> i.p, rt |-> i.rt, err |-> nil], i.normalizedIds),
                  dryRun)

\* StartContainers once internalStartContainers has returned i; the panic of
\* TopSort ends the process with exit code 2
restoreStarted(i, dryRun) ==
    IF i.trace.panic THEN Exited(i.p, i.rt, 2, i.err, i.trace)
    ELSE IF i.err # nil THEN Exited(i.p, i.rt, 127, i.err, i.trace)
    ELSE replayStarted(i, reapplyAll([p |-> i.p, rt |-> i.rt, err |-> nil], i.normalizedIds),
                       dryRun)

StartContainers(p, rt, containerIds, startPaused, pullDeps, dryRun, order) ==
    restoreStarted(internalStartContainers(p, rt, containerIds, startPaused, pullDeps,
                                           dryRun, order),
                   dryRun)

-----------------------------------------------------------------------------
(* The state machine of the rule workflow: one action per invocation of the *)
(* tool, plus what the environment does between invocations                 *)

Runtime ==
    [ip |-> ipOf, running |-> running, paused |-> paused, deps |-> deps,
     hosts |-> etcHosts, ports |-> netPorts]

\* a fresh process: empty cache, the iptables and files of the host
Process(fail) ==
    [ccl |-> EmptyCcl, fw |-> backend, files |-> store, hcfiles |-> hostConfigs,
     chfiles |-> customHosts,
     calls |-> <<>>, saved |-> <<>>, rcalls |-> <<>>, fail |-> fail, rfail |-> {}]

\* a fresh process for which the calls rfail of the Docker API fail
ProcessFailing(rfail) == [Process(0) EXCEPT !.rfail = rfail]

\* command lines of the add actions explored: <<action, source, dest>>
OwnerKeys == {"web"}
Commands == {<<"add-internal", "pa", ".">>, <<"add-internal", "pb", ".">>,
             <<"add-input", ".", "pa">>, <<"add", "8.8.8.8", ".">>,
             <<"add", ".", ".">>, <<"add-internal", ".", ".">>,
             <<"add-internal", "pa", "pb">>, <<"add", "pa", ".">>}
CommandLine(cid, e) ==
    [ContainerId |-> cid, source |-> e[2], dest |-> e[3],
     sourceSeen |-> TRUE, dportSeen |-> TRUE, sportSeen |-> FALSE,
     sourcePort |-> 0, destPort |-> 80, proto |-> "tcp", filter |-> "",
     reverseLookupContainerIPv4 |-> FALSE]

\* container lists given to replay and drop
IdLists == {<<"web">>, <<"web", "pa">>, <<"pa", "web">>}

\* addresses the environment gives a restarted peer
PeerIPs == {"172.17.0.3", "172.17.0.4"}
Peers == {"idA", "idB"}

NoCommand == <<"", "", "">>

\* the HostConfig of a container that docker run created without links and
\* volume providers: the restart policy is "no"
NoDeps == [ZeroHostConfig EXCEPT !.RestartPolicy = NeverRestart]

\* no container has a port
NoPortReports == [id \in CIDs |-> NoPorts]

\* no backupHostConfig.json
NoSnapshot == [exists |-> FALSE, HostConfig |-> NoDeps]

\* no customHosts.json, and the customHosts.json files of the runs of start
NoCustomHosts == [id \in CIDs |-> <<>>]
CustomHostsFiles ==
    {NoCustomHosts, [NoCustomHosts EXCEPT !["idW"] = <<"pa">>, !["idA"] = <<"web">>]}

\* /etc/hosts as Docker writes it: no line of a custom host
NoHostsLines == [id \in CIDs |-> <<<<"127.0.0.1", "localhost">>>>]

\* the backupHostConfig.json files of the runs of start: none, or the one an
\* earlier run saved for pa when pa was linked to pb
SnapshotFiles ==
    {[id \in CIDs |-> NoSnapshot],
     [[id \in CIDs |-> NoSnapshot] EXCEPT
        !["idA"] = [exists |-> TRUE, HostConfig |-> [NoDeps EXCEPT !.Links = <<"pb">>]]]}

\* no start invocation, or one that did not get to the sort
NoStart == [reached |-> FALSE, lookup |-> <<>>, allNodes |-> <<>>, sorted |-> <<>>,
            panic |-> FALSE, rcalls |-> <<>>]

\* what an invocation was given and what it did: exit code, error, the iptables
\* calls and the collections saved
Invocation(op, cmd, ids, dryRun, code, err, p) ==
    [op |-> op, cmd |-> cmd, ids |-> ids, dryRun |-> dryRun,
     code |-> code, err |-> err, calls |-> p.calls, saved |-> p.saved]

\* the zero IptablesRule
NoRule ==
    [Source |-> "", SourceAlias |-> "", SourcePort |-> 0, Destination |-> "",
     DestinationAlias |-> "", DestinationPort |-> 0, Protocol |-> "", Filter |-> ""]

\* no call on the cache yet; self is the descriptor of the rule owner the
\* caller holds
NoAnswer ==
    [op |-> "none", key |-> "", online |-> FALSE, err |-> nil, container |-> NilContainer,
     ipv4 |-> "", alias |-> "", self |-> NilContainer, rule |-> NoRule]

\* no docker-fw add processes side by side
NoAdds == <<>>

Idle == Invocation("none", NoCommand, <<>>, FALSE, 0, nil, [calls |-> <<>>, saved |-> <<>>])

Init ==
    /\ ipOf = [id \in CIDs |-> CASE id = "idW" -> "172.17.0.2"
                                 [] id = "idA" -> "172.17.0.3"
                                 [] OTHER -> "172.17.0.4"]
    /\ backend = {}
    /\ store = [id \in CIDs |-> NoFile]
    /\ last = Idle
    /\ deps = [id \in CIDs |-> NoDeps]
    /\ netPorts = NoPortReports
    /\ running = CIDs
    /\ paused = {}
    /\ started = NoStart
    /\ hostConfigs = [id \in CIDs |-> NoSnapshot]
    /\ ccl = EmptyCcl
    /\ answer = NoAnswer
    /\ customHosts = NoCustomHosts
    /\ etcHosts = NoHostsLines
    /\ adds = NoAdds

\* docker-fw add|add-input|add-internal <container> --source .. --dest .. --dport 80
Add ==
    /\ last = Idle
    /\ \E cid \in OwnerKeys, cmd \in Commands, fail \in {0, 1} :
        /\ Len(store[Resolve(cid)].Rules) < MaxRules
        /\ \E res \in {ExecuteAddAction(Process(fail), Runtime, CommandLine(cid, cmd),
                                        cmd[1])} :
           /\ backend' = res.p.fw
           /\ store' = res.p.files
           /\ last' = Invocation("add", cmd, <<cid>>, FALSE,
                                 IF res.err = nil THEN 0 ELSE 1, res.err, res.p)
           /\ UNCHANGED netPorts
           /\ UNCHANGED <<adds, ipOf, deps, running, paused, started, hostConfigs, ccl, answer,
                 customHosts, etcHosts>>

\* command lines of add-two-ways, and the calls of the Docker API that fail
TwoWaysCommands == {<<"add-two-ways", "pa", ".">>}
TwoWaysFailures == {{}, {"exec"}}

\* the runtime an add action leaves: add-two-ways returns it once it has got to
\* the custom hosts
RuntimeLeft(res) == IF "rt" \in DOMAIN res THEN res.rt ELSE Runtime

\* docker-fw add-two-ways <container> --source .. --dest .. --dport 80
TwoWays ==
    /\ last = Idle
    /\ \E cid \in OwnerKeys, cmd \in TwoWaysCommands, fail \in {0, 1},
          rfail \in TwoWaysFailures :
        /\ Len(store[Resolve(cid)].Rules) < MaxRules
        /\ \E res \in {ExecuteAddAction([Process(fail) EXCEPT !.rfail = rfail], Runtime,
                                        CommandLine(cid, cmd), cmd[1])} :
           /\ backend' = res.p.fw
           /\ store' = res.p.files
           /\ customHosts' = res.p.chfiles
           /\ etcHosts' = RuntimeLeft(res).hosts
           /\ paused' = RuntimeLeft(res).paused
           /\ last' = Invocation("add", cmd, <<cid>>, FALSE,
                                 IF res.err = nil THEN 0 ELSE 1, res.err, res.p)
           /\ UNCHANGED netPorts
           /\ UNCHANGED <<adds, ipOf, deps, running, started, hostConfigs, ccl, answer>>

\* addresses given to allow
Whitelists == {<<"8.8.8.8">>}

\* docker-fw allow <container> <addresses>
Allow ==
    /\ last = Idle
    /\ \E cid \in OwnerKeys, whitelist4 \in Whitelists, fail \in {0, 1} :
        /\ Len(store[Resolve(cid)].Rules) < MaxRules
        /\ \E res \in {AllowExternal(Process(fail), Runtime, cid, whitelist4)} :
           /\ backend' = res.p.fw
           /\ store' = res.p.files
           /\ last' = Invocation("allow", <<"allow", whitelist4[1], cid>>, <<cid>>, FALSE,
                                 IF res.err = nil THEN 0 ELSE 2, res.err, res.p)
           /\ UNCHANGED netPorts
           /\ UNCHANGED <<adds, ipOf, deps, running, paused, started, hostConfigs, ccl,
                 answer, customHosts, etcHosts>>

\* docker-fw replay [--dry-run] <containers>
Replay ==
    /\ last = Idle
    /\ \E ids \in IdLists, dryRun \in BOOLEAN, fail \in {0, 1} :
        \E res \in {ReplayRules(Process(fail), Runtime, ids, dryRun)} :
           /\ backend' = res.p.fw
           /\ store' = res.p.files
           /\ last' = Invocation("replay", NoCommand, ids, dryRun,
                                 res.code, res.err, res.p)
           /\ UNCHANGED netPorts
           /\ UNCHANGED <<adds, ipOf, deps, running, paused, started, hostConfigs, ccl, answer,
                 customHosts, etcHosts>>

\* docker-fw drop <containers>
Drop ==
    /\ last = Idle
    /\ \E ids \in IdLists :
        \E res \in {DropRules(Process(0), Runtime, ids)} :
           /\ backend' = res.p.fw
           /\ store' = res.p.files
           /\ last' = Invocation("drop", NoCommand, ids, FALSE,
                                 IF res.err = nil THEN 0 ELSE 2, res.err, res.p)
           /\ UNCHANGED netPorts
           /\ UNCHANGED <<adds, ipOf, deps, running, paused, started, hostConfigs, ccl, answer,
                 customHosts, etcHosts>>

\* the orders in which the iteration over a map of containers or nodes may yield them
MapOrders == {o \in [1..3 -> CIDs] : \A i, j \in 1..3 : i # j => o[i] # o[j]}

\* container lists given to ls
LsLists == {<<>>, <<"web">>}

\* docker-fw ls [containers]: a panic ends the process with code 2
Ls ==
    /\ last = Idle
    /\ \E ids \in LsLists, order \in MapOrders :
        \E res \in {ListRules(Process(0), Runtime, ids, order)} :
           last' = [op |-> "ls", cmd |-> NoCommand, ids |-> ids, dryRun |-> FALSE,
                    code |-> IF res.panic \/ res.err # nil THEN 2 ELSE 0,
                    err |-> IF res.panic THEN "panic: nil pointer dereference" ELSE res.err,
                    calls |-> res.p.calls, saved |-> res.p.saved, out |-> res.out]
    /\ UNCHANGED netPorts
    /\ UNCHANGED <<adds, ipOf, backend, store, deps, running, paused, started, hostConfigs,
                   ccl, answer, customHosts, etcHosts>>

\* the process exits
Exit ==
    /\ last # Idle
    /\ last' = Idle
    /\ started' = NoStart
    /\ UNCHANGED netPorts
    /\ UNCHANGED <<adds, ipOf, backend, store, deps, running, paused, hostConfigs, ccl, answer,
                 customHosts, etcHosts>>

\* the environment stops a peer container: it loses its address
ContainerStop ==
    \E id \in Peers :
        /\ last = Idle
        /\ ipOf[id] # ""
        /\ ipOf' = [ipOf EXCEPT ![id] = ""]
        /\ running' = running \ {id}
        /\ UNCHANGED netPorts
        /\ UNCHANGED <<adds, backend, store, last, deps, paused, started, hostConfigs, ccl, answer,
                 customHosts, etcHosts>>

\* the environment starts a peer container: the bridge gives it a free address
ContainerStart ==
    \E id \in Peers, ip \in PeerIPs :
        /\ last = Idle
        /\ ipOf[id] = ""
        /\ \A other \in CIDs : ipOf[other] # ip
        /\ ipOf' = [ipOf EXCEPT ![id] = ip]
        /\ running' = running \cup {id}
        /\ UNCHANGED netPorts
        /\ UNCHANGED <<adds, backend, store, last, deps, paused, started, hostConfigs, ccl, answer,
                 customHosts, etcHosts>>

\* the host reboots or the administrator flushes iptables
Flush ==
    /\ last = Idle
    /\ backend # {}
    /\ backend' = {}
    /\ UNCHANGED netPorts
    /\ UNCHANGED <<adds, ipOf, store, last, deps, running, paused, started, hostConfigs, ccl,
                 answer,
                 customHosts, etcHosts>>

Next ==
    Add \/ TwoWays \/ Allow \/ Replay \/ Drop \/ Ls \/ Exit \/ ContainerStop
        \/ ContainerStart \/ Flush

Spec == Init /\ [][Next]_vars

-----------------------------------------------------------------------------
(* The state machine of the init action: the daemon adds its rule when it    *)
(* starts, docker-fw init replaces it, add actions load rules in between    *)

\* outcomes of Docker.Ping
PingErrors == {nil, "cannot connect to the Docker daemon"}

\* docker-fw init
InitFirewall ==
    /\ last = Idle
    /\ \E pingErr \in PingErrors, fail \in {0, 1} :
        \E res \in {InitializeFirewall(Process(fail), pingErr)} :
           /\ backend' = res.p.fw
           /\ last' = Invocation("init", NoCommand, <<>>, FALSE,
                                 IF res.err = nil THEN 0 ELSE 1, res.err, res.p)
           /\ UNCHANGED netPorts
           /\ UNCHANGED <<adds, ipOf, store, deps, running, paused, started, hostConfigs, ccl,
                 answer, customHosts, etcHosts>>

\* the Docker daemon (re)starts and adds its rule to the FORWARD chain
DaemonStart ==
    /\ last = Idle
    /\ DockerRule \notin backend
    /\ backend' = backend \cup {DockerRule}
    /\ UNCHANGED netPorts
    /\ UNCHANGED <<adds, ipOf, store, last, deps, running, paused, started, hostConfigs, ccl,
                 answer, customHosts, etcHosts>>

NextInit == InitFirewall \/ DaemonStart \/ Add \/ Exit \/ Flush

SpecInit == Init /\ [][NextInit]_vars

-----------------------------------------------------------------------------
(* The state machine of the start action: one start invocation, for every   *)
(* host configuration the runtime may report and for several states of the  *)
(* containers                                                               *)

\* the arrays of at most n provider names
ProviderLists(n) == UNION {[1..k -> {Name1(id) : id \in CIDs}] : k \in 0..n}

HostConfigs ==
    {[NoDeps EXCEPT !.Links = l, !.VolumesFrom = v] :
        <<l, v>> \in {lv \in ProviderLists(MaxEdges) \X ProviderLists(MaxEdges) :
                        Len(lv[1]) + Len(lv[2]) <= MaxEdges}}

EdgeCount(d) ==
    LET n(id) == Len(d[id].Links) + Len(d[id].VolumesFrom)
    IN n("idW") + n("idA") + n("idB")

\* no container links to itself or takes its own volumes
NoSelfReference(d) ==
    \A id \in CIDs :
        /\ \A i \in 1..Len(d[id].Links) : d[id].Links[i] # Name1(id)
        /\ \A i \in 1..Len(d[id].VolumesFrom) : d[id].VolumesFrom[i] # Name1(id)

\* the containers before the start: [running, paused, ip]
Stopped == [id \in CIDs |-> ""]
Worlds ==
    {[running |-> {}, paused |-> {}, ip |-> Stopped],
     [running |-> {"idA"}, paused |-> {}, ip |-> [Stopped EXCEPT !["idA"] = "172.17.0.2"]],
     [running |-> {"idA"}, paused |-> {"idA"},
      ip |-> [Stopped EXCEPT !["idA"] = "172.17.0.2"]],
     [running |-> CIDs, paused |-> {},
      ip |-> [idW |-> "172.17.0.2", idA |-> "172.17.0.3", idB |-> "172.17.0.4"]]}

\* container lists given to start
StartLists == {<<"pa", "web">>, <<"pb", "pb", "pa">>, <<"web", "pa", "pb">>}

InitStart ==
    /\ \E w \in Worlds : ipOf = w.ip /\ running = w.running /\ paused = w.paused
    /\ backend = {}
    /\ store = [id \in CIDs |-> NoFile]
    /\ last = Idle
    /\ deps \in {d \in [CIDs -> HostConfigs] : EdgeCount(d) <= MaxEdges /\ NoSelfReference(d)}
    /\ netPorts = NoPortReports
    /\ started = NoStart
    /\ hostConfigs \in SnapshotFiles
    /\ ccl = EmptyCcl
    /\ answer = NoAnswer
    /\ customHosts \in CustomHostsFiles
    /\ etcHosts = NoHostsLines
    /\ adds = NoAdds

\* docker-fw start [--paused] [--pull-deps] [--dry-run] <containers>
Start ==
    /\ last = Idle
    /\ \E ids \in StartLists, startPaused, pullDeps, dryRun \in BOOLEAN, order \in MapOrders :
        \E res \in {StartContainers(Process(0), Runtime, ids, startPaused, pullDeps, dryRun,
                                    order)} :
           /\ ipOf' = res.rt.ip
           /\ running' = res.rt.running
           /\ paused' = res.rt.paused
           /\ deps' = res.rt.deps
           /\ hostConfigs' = res.p.hcfiles
           /\ backend' = res.p.fw
           /\ store' = res.p.files
           /\ last' = [Invocation("start", NoCommand, ids, dryRun, res.code, res.err, res.p)
                          EXCEPT !.cmd = <<IF startPaused THEN "--paused" ELSE "",
                                           IF pullDeps THEN "--pull-deps" ELSE "", "">>]
           /\ started' = [reached |-> res.trace.reached, lookup |-> res.trace.lookup,
                          allNodes |-> res.trace.allNodes, sorted |-> res.trace.sorted,
                          panic |-> res.trace.panic, rcalls |-> res.p.rcalls]
           /\ etcHosts' = res.rt.hosts
           /\ UNCHANGED netPorts
           /\ UNCHANGED <<adds, ccl, answer, customHosts>>

NextStart == Start

SpecStart == InitStart /\ [][NextStart]_vars

-----------------------------------------------------------------------------
(* The state machine of the container cache: the calls one process makes on  *)
(* its cache, one action per call, for several states of the containers      *)

\* calls of Docker.InspectContainer after which the process makes no further
\* call that may fetch
MaxFetches == 2

\* the process may go on: once all containers are loaded a lookup fetches nothing,
\* before that the fetches are bounded
MayFetch == ccl.loadedAll \/ ccl.inspects < MaxFetches

\* keys given to the lookups: name, full id, short id and name with the slash
\* of the owner, the name of a peer, and a key the runtime does not know
CacheKeys == {"web", "idW", "sW", "/web", "pa", "nope"}

\* addresses and aliases given to ParseAddress
Addresses ==
    {".", "/", "web", "idW", "sW", "pa", "8.8.8.8", "10.0.0.0/8",
     "172.17.0.2", "172.17.0.3", "172.17.0.9", "172.16.0.0/12"}

\* sources and destinations given to NewIptablesRule
RuleAddresses == {".", "web", "sW", "pa", "8.8.8.8", "172.17.0.3"}

Answer(op, key, online, err, container, ipv4, alias, self) ==
    [op |-> op, key |-> key, online |-> online, err |-> err, container |-> container,
     ipv4 |-> ipv4, alias |-> alias, self |-> self, rule |-> NoRule]

\* the container a lookup returned, or nil with the error
Returned(l) == IF l.err = nil THEN l.container ELSE NilContainer

InitCache ==
    /\ \E w \in Worlds : ipOf = w.ip /\ running = w.running /\ paused = w.paused
    /\ backend = {}
    /\ store = [id \in CIDs |-> NoFile]
    /\ last = Idle
    /\ deps = [id \in CIDs |-> NoDeps]
    /\ netPorts = NoPortReports
    /\ started = NoStart
    /\ hostConfigs = [id \in CIDs |-> NoSnapshot]
    /\ ccl = EmptyCcl
    /\ answer = NoAnswer
    /\ customHosts = NoCustomHosts
    /\ etcHosts = NoHostsLines
    /\ adds = NoAdds

\* ccl.LookupContainer(key) or ccl.LookupOnlineContainer(key); with hold the
\* caller keeps the container as the rule owner, as NewIptablesRule does
CacheLookup ==
    /\ MayFetch
    /\ \E key \in CacheKeys, online, hold \in BOOLEAN :
        \E l \in {IF online THEN LookupOnlineContainer(ccl, Runtime, key)
                            ELSE LookupContainer(ccl, Runtime, key)} :
           /\ ccl' = l.ccl
           /\ answer' = Answer("lookup", key, online, l.err, Returned(l), "", "",
                               IF hold /\ l.err = nil THEN l.container ELSE answer.self)
           /\ UNCHANGED netPorts
           /\ UNCHANGED <<adds, ipOf, backend, store, last, deps, running, paused, started,
                          hostConfigs, customHosts, etcHosts>>

\* ccl.RefreshContainer(key, online)
CacheRefresh ==
    /\ ccl.inspects < MaxFetches
    /\ \E key \in CacheKeys, online \in BOOLEAN :
        \E r \in {RefreshContainer(ccl, Runtime, key, online)} :
           /\ ccl' = r.ccl
           /\ answer' = Answer("refresh", key, online, r.err, NilContainer, "", "",
                               answer.self)
           /\ UNCHANGED netPorts
           /\ UNCHANGED <<adds, ipOf, backend, store, last, deps, running, paused, started,
                          hostConfigs, customHosts, etcHosts>>

\* ccl.LoadAllContainers()
CacheLoadAll ==
    /\ MayFetch
    /\ \E r \in {LoadAllContainers(ccl, Runtime)} :
           /\ ccl' = r.ccl
           /\ answer' = Answer("loadAll", "", FALSE, r.err, NilContainer, "", "",
                               answer.self)
           /\ UNCHANGED netPorts
           /\ UNCHANGED <<adds, ipOf, backend, store, last, deps, running, paused, started,
                          hostConfigs, customHosts, etcHosts>>

\* ccl.FindContainerByNetworkAddress(ip); it panics unless all entries are loaded
CacheFind ==
    /\ ccl.loadedAll
    /\ \E ip \in ContainerIPs :
        \E f \in {FindContainerByNetworkAddress(ccl, ip)} :
           /\ answer' = Answer("find", ip, FALSE, f.err, Returned(f), "", "", answer.self)
           /\ UNCHANGED netPorts
           /\ UNCHANGED <<adds, ipOf, backend, store, last, deps, running, paused, started,
                          hostConfigs, ccl, customHosts, etcHosts>>

\* ccl.ParseAddress(address, self, reverse) for the rule owner the caller holds
CacheParse ==
    /\ MayFetch
    /\ answer.self # NilContainer
    /\ \E address \in Addresses, reverse \in BOOLEAN :
        \E a \in {ParseAddress(ccl, Runtime, address, answer.self, reverse)} :
           /\ ccl' = a.ccl
           /\ answer' = Answer("parse", address, reverse, a.err, NilContainer, a.ipv4,
                               a.alias, answer.self)
           /\ UNCHANGED netPorts
           /\ UNCHANGED <<adds, ipOf, backend, store, last, deps, running, paused, started,
                          hostConfigs, customHosts, etcHosts>>

\* NewIptablesRule(key, source, 0, dest, 80, "tcp", "", reverse) in a process that
\* has made the calls so far; key is <<source, dest>> and ipv4 tells whether the
\* process has touched iptables or a rule file
CacheNewRule ==
    /\ MayFetch
    /\ \E key \in OwnerKeys, source, dest \in RuleAddresses, reverse \in BOOLEAN :
        \E n \in {NewIptablesRule([Process(0) EXCEPT !.ccl = ccl], Runtime, key, source, 0,
                                   dest, 80, "tcp", "", reverse)} :
           /\ ccl' = n.p.ccl
           /\ answer' = [Answer("rule", <<source, dest>>, reverse, n.err, NilContainer,
                                IF n.p = [Process(0) EXCEPT !.ccl = n.p.ccl]
                                THEN "untouched" ELSE "touched",
                                "", answer.self)
                            EXCEPT !.rule = IF n.err = nil THEN n.rule ELSE NoRule]
           /\ UNCHANGED netPorts
           /\ UNCHANGED <<adds, ipOf, backend, store, last, deps, running, paused, started,
                          hostConfigs, customHosts, etcHosts>>

NextCache ==
    \/ CacheLookup \/ CacheRefresh \/ CacheLoadAll \/ CacheFind \/ CacheParse
    \/ CacheNewRule

SpecCache == InitCache /\ [][NextCache]_vars

-----------------------------------------------------------------------------
(* Properties of the reconciliation engine *)

\* the container a command-line key names
OwnerOf(key) == LookupContainer(EmptyCcl, Runtime, key).container

\* the address an endpoint of a persisted rule resolves to now
ResolvedNow(alias, stored, self) ==
    IF alias = "" THEN stored
    ELSE ParseAddress(EmptyCcl, Runtime, alias, self, FALSE).ipv4

\* the persisted rule j of container self with both aliases re-resolved
Reresolved(j, self) ==
    [UnmarshalRule(j) EXCEPT
        !.IptablesRule.Source = ResolvedNow(j.SourceAlias, j.Source, self),
        !.IptablesRule.Destination = ResolvedNow(j.DestinationAlias, j.Destination, self)]

\* the persisted rule references a peer that is online under another address
\* than the stored one
PeerMoved(j, self) ==
    \/ /\ j.SourceAlias \notin {"", "."}
       /\ ResolvedNow(j.SourceAlias, j.Source, self) \notin {"", j.Source}
    \/ /\ j.DestinationAlias \notin {"", "."}
       /\ ResolvedNow(j.DestinationAlias, j.Destination, self) \notin {"", j.Destination}

LiveReplayDone == last.op = "replay" /\ ~last.dryRun /\ last.err = nil

Mutating(call) == call.op \in {"I", "A", "D"}
IssuesMutation(calls) == \E k \in 1..Len(calls) : Mutating(calls[k])

\* C3 as stated: once a live replay has returned success, the backend holds the
\* current canonical form of every rule persisted for every replayed container
C3_AllCurrentFormsPresent ==
    LiveReplayDone =>
        \A k \in 1..Len(last.ids) :
            LET self == OwnerOf(last.ids[k])
                rules == store[self.ID].Rules
            IN \A i \in 1..Len(rules) : Format(Reresolved(rules[i], self)) \in backend

\* C4: a dry-run replay issues no insert, append or delete, leaves the backend
\* as it was and writes no rule file
C4_DryRunMutatesNothing ==
    [][(last'.op = "replay" /\ last'.dryRun) =>
            /\ ~IssuesMutation(last'.calls)
            /\ backend' = backend
            /\ last'.saved = <<>>
            /\ store' = store]_vars

\* a dry-run replay over a collection with a moved peer whose old form is loaded
C4_Witness ==
    /\ last.op = "replay" /\ last.dryRun /\ last.code = 1 /\ last.err = nil
    /\ \E i \in 1..Len(store["idW"].Rules) :
          /\ PeerMoved(store["idW"].Rules[i], OwnerOf("web"))
          /\ Format(UnmarshalRule(store["idW"].Rules[i])) \in backend

\* C5 as stated: a dry-run replay reports code 1 without error exactly when a live
\* replay from the same state would issue an insert, append or delete, and
\* reports 0 otherwise
C5_DryRunReportsExactly ==
    [][(last'.op = "replay" /\ last'.dryRun) =>
            \A fail \in {0, 1} :
                LET live == ReplayRules(Process(fail), Runtime, last'.ids, FALSE)
                IN /\ (last'.code = 1 /\ last'.err = nil) <=> IssuesMutation(live.p.calls)
                   /\ ~IssuesMutation(live.p.calls) => last'.code = 0]_vars

\* C5 amended: a dry-run replay that completes without error reports code 1
\* exactly when a live replay from the same state would issue an insert, append
\* or delete, and 0 otherwise; a dry-run replay that fails reports a non-zero code
C5_DryRunReportsWhenComplete ==
    [][(last'.op = "replay" /\ last'.dryRun) =>
            \A fail \in {0, 1} :
                LET live == ReplayRules(Process(fail), Runtime, last'.ids, FALSE)
                IN IF last'.err = nil
                   THEN /\ last'.code \in {0, 1}
                        /\ last'.code = 1 <=> IssuesMutation(live.p.calls)
                   ELSE last'.code # 0]_vars

\* a dry-run replay that reports a change with only a delete pending: the peer
\* moved, the old form is loaded and the new form is loaded too
C5_Witness ==
    /\ last.op = "replay" /\ last.dryRun /\ last.code = 1 /\ last.err = nil
    /\ \E i \in 1..Len(store["idW"].Rules) :
          /\ PeerMoved(store["idW"].Rules[i], OwnerOf("web"))
          /\ Format(Reresolved(store["idW"].Rules[i], OwnerOf("web"))) \in backend
    /\ \A i \in 1..Len(store["idW"].Rules) :
          Format(Reresolved(store["idW"].Rules[i], OwnerOf("web"))) \in backend

\* the calls delete the old form, then check the new form and, when the check
\* finds it missing, insert or append it
DeleteThenApply(calls, old, new, chain) ==
    \E k \in 1..Len(calls) :
        /\ calls[k].op = "D" /\ calls[k].rule = old
        /\ k + 1 <= Len(calls)
        /\ calls[k + 1].op = "C" /\ calls[k + 1].rule = new
        /\ \/ calls[k + 1].ok
           \/ /\ k + 3 <= Len(calls)
              /\ calls[k + 3].op = (IF chain = DOCKER_CHAIN THEN "A" ELSE "I")
              /\ calls[k + 3].rule = new
              /\ calls[k + 3].ok

\* what C6 says of the live replay just done, for the rules of the replayed
\* containers that were persisted before it
AddressChangeHandled(before, calls, after) ==
    \A k \in 1..Len(last'.ids) :
        LET self == OwnerOf(last'.ids[k])
        IN \A i \in 1..Len(before[self.ID].Rules) :
            LET j == before[self.ID].Rules[i]
            IN (self.IP # "" /\ PeerMoved(j, self)) =>
                /\ DeleteThenApply(calls, Format(UnmarshalRule(j)),
                                   Format(Reresolved(j, self)), j.Chain)
                /\ Len(after[self.ID].Rules) = Len(before[self.ID].Rules)
                /\ after[self.ID].Rules[i] = MarshalRule(Reresolved(j, self))

C7_SecondReplayIsQuiet ==
    LiveReplayDone =>
        LET again == ReplayRules(Process(0), Runtime, last.ids, FALSE)
        IN /\ \A k \in 1..Len(again.p.calls) : again.p.calls[k].op \notin {"I", "A"}
           /\ again.p.saved = <<>>
           /\ again.p.fw = backend
           /\ again.p.files = store

-----------------------------------------------------------------------------
(* Properties of the rule store and of the add actions *)

\* the rule an add command line makes, as the action tracks it
TrackedRule(cmd) ==
    [IptablesRule |->
        NewIptablesRule(Process(0), Runtime, "web", cmd[2], 0, cmd[3], 80, "tcp", "",
                        FALSE).rule,
     Chain |-> IF cmd[1] = "add" THEN "FORWARD"
               ELSE IF cmd[1] = "add-input" THEN "INPUT" ELSE DOCKER_CHAIN,
     JumpTo |-> IF cmd[1] = "add" THEN DOCKER_CHAIN ELSE "ACCEPT"]

\* the persisted rule j has the canonical form and the alias annotations of r
SameFormAndAliases(j, r) ==
    /\ Format(UnmarshalRule(j)) = Format(r)
    /\ j.SourceAlias = r.IptablesRule.SourceAlias
    /\ j.DestinationAlias = r.IptablesRule.DestinationAlias
    /\ j.SourceAlias # "" => j.Source = r.IptablesRule.Source
    /\ j.DestinationAlias # "" => j.Destination = r.IptablesRule.Destination

\* the add action found its rule loaded or loaded it: it goes on to record it
RuleInPlace(calls) == Len(calls) > 0 /\ calls[Len(calls)].ok

\* C8: an add that goes on to record its rule succeeds; it leaves the collection
\* and its file untouched when a persisted rule has the canonical form and the
\* alias annotations of the new rule, and otherwise appends the new rule at the
\* end of the collection
C8_RecordIsDeduplicated ==
    [][(last'.op = "add" /\ RuleInPlace(last'.calls)) =>
            LET before == store["idW"].Rules
                added == TrackedRule(last'.cmd)
            IN /\ last'.err = nil
               /\ IF \E i \in 1..Len(before) : SameFormAndAliases(before[i], added)
                  THEN store' = store /\ last'.saved = <<>>
                  ELSE /\ store'["idW"].Rules = Append(before, MarshalRule(added))
                       /\ Len(last'.saved) = 1]_vars

\* an add has appended a rule whose canonical form a persisted rule already has,
\* under another alias
C8_Witness ==
    /\ last.op = "add" /\ last.err = nil /\ Len(last.saved) = 1
    /\ Len(store["idW"].Rules) = 2
    /\ Format(UnmarshalRule(store["idW"].Rules[1]))
         = Format(UnmarshalRule(store["idW"].Rules[2]))
    /\ store["idW"].Rules[1].SourceAlias # store["idW"].Rules[2].SourceAlias

C10_SelfToSelfRejected ==
    [][(last'.op = "add" /\ last'.cmd[2] = "." /\ last'.cmd[3] = ".") =>
            /\ last'.err = "Cannot add rule with same source and destination"
            /\ last'.code # 0
            /\ last'.calls = <<>>
            /\ last'.saved = <<>>
            /\ backend' = backend
            /\ store' = store]_vars

\* an add-internal from '.' to '.' has been refused while rules were loaded
C10_Witness ==
    /\ last.op = "add" /\ last.cmd = <<"add-internal", ".", ".">>
    /\ last.err # nil
    /\ backend # {}

-----------------------------------------------------------------------------
(* Properties of the dependency sort *)

\* the nodes the array a names
Members(a) == {a[i] : i \in 1..Len(a)}

\* the nodes reached from the nodes of S over at most k edges
RECURSIVE Reached(_, _, _)
Reached(lookup, S, k) ==
    IF k = 0 THEN S
    ELSE Reached(lookup, S \cup UNION {Members(lookup[n].children) : n \in S}, k - 1)

\* some node is reached from one of its own children
HasCycle(lookup) ==
    \E n \in DOMAIN lookup :
        n \in Reached(lookup, Members(lookup[n].children), Cardinality(DOMAIN lookup))

\* the place of node n in the array a
PlaceOf(a, n) == CHOOSE i \in 1..Len(a) : a[i] = n

\* the edges into node n, duplicates counted
EdgesInto(lookup, n) ==
    UNION {{<<m, i>> : i \in {j \in 1..Len(lookup[m].children) : lookup[m].children[j] = n}} :
              m \in DOMAIN lookup}

\* C1: for every acyclic graph the start action builds, TopSort does not panic,
\* returns every node exactly once and returns every node after all the nodes
\* it depends on; the graph has, for every node, as many incoming edges
\* (duplicates counted) as its ingress says
C1_SortedRespectsDependencies ==
    (started.reached /\ ~HasCycle(started.lookup)) =>
        /\ ~started.panic
        /\ \A n \in DOMAIN started.lookup :
              /\ Cardinality({i \in 1..Len(started.sorted) : started.sorted[i] = n}) = 1
              /\ Cardinality({i \in 1..Len(started.allNodes) : started.allNodes[i] = n}) = 1
        /\ Len(started.sorted) = Cardinality(DOMAIN started.lookup)
        /\ \A n \in DOMAIN started.lookup :
              started.lookup[n].ingress = Cardinality(EdgesInto(started.lookup, n))
        /\ \A n \in DOMAIN started.lookup :
              \A c \in Members(started.lookup[n].children) :
                  PlaceOf(started.sorted, n) < PlaceOf(started.sorted, c)

\* an acyclic graph with a duplicate edge has been sorted into another order
\* than the one the map gave
C1_Witness ==
    /\ started.reached /\ ~started.panic
    /\ \E n \in DOMAIN started.lookup :
          \E i, j \in 1..Len(started.lookup[n].children) :
              i # j /\ started.lookup[n].children[i] = started.lookup[n].children[j]
    /\ started.sorted # started.allNodes
    /\ Len(started.sorted) = 3

\* C2: for every graph with a cycle the start action builds, TopSort panics with
\* fewer sorted nodes than nodes, the invocation fails with 'found cycle in
\* DAG', and no container is started or paused, no host configuration is
\* saved, no replay runs and no rule file is written
C2_CycleIsFatal ==
    (started.reached /\ HasCycle(started.lookup)) =>
        /\ started.panic
        /\ Len(started.sorted) < Len(started.allNodes)
        /\ last.err = "found cycle in DAG"
        /\ last.code # 0
        /\ started.rcalls = <<>>
        /\ last.calls = <<>>
        /\ last.saved = <<>>

\* a live start over a two-container cycle and a stopped third container
C2_Witness ==
    /\ started.reached /\ started.panic
    /\ HasCycle(started.lookup)
    /\ ~last.dryRun
    /\ Cardinality(DOMAIN started.lookup) = 3
    /\ running = {}

-----------------------------------------------------------------------------
(* Properties of the rules NewIptablesRule makes and of the container cache *)

\* C11: every rule NewIptablesRule returns has a source address that differs
\* from its destination address and exactly one of its two aliases is the
\* self-marker '.'; otherwise it returns an error and no rule, and it touches
\* neither iptables nor a rule file either way
C11_RuleIsBetweenSelfAndOther ==
    [][answer'.op = "rule" =>
            /\ answer'.ipv4 = "untouched"
            /\ backend' = backend /\ store' = store
            /\ IF answer'.err = nil
               THEN /\ answer'.rule.Source # answer'.rule.Destination
                    /\ (answer'.rule.SourceAlias = ".") # (answer'.rule.DestinationAlias = ".")
               ELSE answer'.rule = NoRule]_vars

\* NewIptablesRule has made a rule from a peer alias to '.'
C11_Witness ==
    /\ answer.op = "rule" /\ answer.err = nil
    /\ answer.rule.SourceAlias = "pa" /\ answer.rule.DestinationAlias = "."
    /\ answer.rule.Source # answer.rule.Destination

\* C12: when ParseAddress succeeds on an endpoint that designates the rule owner
\* the caller holds ('.', its name, its full id, its short id), the alias it
\* returns is the self-marker '.'
C12_OwnerResolvesToSelfMarker ==
    (/\ answer.op = "parse" /\ answer.err = nil
     /\ (answer.key = "." \/ Resolve(answer.key) = answer.self.ID))
        => answer.alias = "."

\* C13: ParseAddress on '.' returns the address of the rule owner with /32 and
\* the alias '.'; on '/' it returns the address of the Docker host and the
\* alias '/'; an IPv4 literal without CIDR comes back with /32 appended
C13_MarkersAndLiterals ==
    answer.op = "parse" =>
        /\ answer.key = "." =>
                /\ answer.err = nil /\ answer.alias = "."
                /\ answer.self.IP = "172.17.0.2" => answer.ipv4 = "172.17.0.2/32"
                /\ answer.self.IP = "172.17.0.3" => answer.ipv4 = "172.17.0.3/32"
                /\ answer.self.IP = "" => answer.ipv4 = "/32"
        /\ answer.key = "/" =>
                answer.err = nil /\ answer.alias = "/" /\ answer.ipv4 = "172.17.42.1/32"
        /\ (answer.key = "8.8.8.8" /\ answer.err = nil) => answer.ipv4 = "8.8.8.8/32"
        /\ (answer.key = "172.17.0.2" /\ answer.err = nil) => answer.ipv4 = "172.17.0.2/32"
        /\ (answer.key = "172.17.0.3" /\ answer.err = nil) => answer.ipv4 = "172.17.0.3/32"
        /\ (answer.key = "172.17.0.9" /\ answer.err = nil) => answer.ipv4 = "172.17.0.9/32"

\* ParseAddress has resolved '.' for a running rule owner
C13_Witness ==
    /\ answer.op = "parse" /\ answer.key = "." /\ answer.err = nil
    /\ answer.self.ID = "idW" /\ answer.self.IP = "172.17.0.2"
    /\ answer.ipv4 = "172.17.0.2/32" /\ answer.alias = "."

\* C14: after RefreshContainer(key) has succeeded, every key of the cache that
\* refers to the refreshed container maps to the descriptor just fetched
C14_RefreshLeavesNoStaleKey ==
    [][(answer'.op = "refresh" /\ answer'.err = nil) =>
            \A k \in DOMAIN ccl'.containers :
                ccl'.containers[k].ID = Resolve(answer'.key) =>
                    ccl'.containers[k].ptr = ccl.nextPtr]_vars

\* C15: LookupOnlineContainer returns no container whose address is empty; when
\* the cached entry of the key has an empty address, and when the key is not
\* cached and the container fetched for it has an empty address, it returns the
\* error of a container without a valid IPv4 address
C15_OnlineLookupHasAddress ==
    [][(answer'.op = "lookup" /\ answer'.online) =>
            /\ (answer'.err = nil /\ answer'.container # NilContainer)
                    => answer'.container.IP # ""
            /\ (answer'.key \in DOMAIN ccl.containers
                    /\ ccl.containers[answer'.key].IP = "")
                    => answer'.err = "does not have a valid IPv4 address"
            /\ (answer'.key \notin DOMAIN ccl.containers /\ ~ccl.loadedAll
                    /\ Resolve(answer'.key) # NoContainer
                    /\ ipOf[Resolve(answer'.key)] = "")
                    => answer'.err = "does not have a valid IPv4 address"]_vars

\* an online lookup has failed on the cached entry of a stopped container, which
\* an earlier lookup had fetched and returned
C15_Witness ==
    /\ answer.op = "lookup" /\ answer.online
    /\ answer.err = "does not have a valid IPv4 address"
    /\ answer.key = "web" /\ answer.self.ID = "idW" /\ answer.self.IP = ""
    /\ ccl.inspects = 1
    /\ ccl.containers["web"] = answer.self

\* C16: the cache calls Docker.ListContainers at most once; LoadAllContainers
\* on a loaded cache makes no call of the runtime; and once the cache is loaded a
\* lookup of a key the cache lacks returns the not-found error without a call of
\* Docker.InspectContainer
C16_LoadAllOnceThenNoFetch ==
    [][/\ ccl'.lists <= 1
       /\ (answer'.op = "loadAll" /\ ccl.loadedAll) =>
                ccl'.lists = ccl.lists /\ ccl'.inspects = ccl.inspects
       /\ (answer'.op = "lookup" /\ ccl.loadedAll
                /\ answer'.key \notin DOMAIN ccl.containers) =>
                /\ answer'.err = "container not found in fully preloaded cache"
                /\ ccl'.inspects = ccl.inspects /\ ccl'.lists = ccl.lists]_vars

\* on a loaded cache a lookup of the short id of a container, which the runtime
\* knows and the cache lacks, has returned the not-found error
C16_Witness ==
    /\ answer.op = "lookup" /\ answer.key = "sW"
    /\ answer.err = "container not found in fully preloaded cache"
    /\ ccl.loadedAll /\ ccl.lists = 1 /\ ccl.inspects = 3
    /\ "sW" \notin DOMAIN ccl.containers

\* C17: once LoadAllContainers has succeeded, networkAddress maps the address of
\* every container that has one to that container
C17_LoadAllIndexesAddresses ==
    ccl.loadedAll =>
        \A id \in CIDs :
            ipOf[id] # "" =>
                /\ ipOf[id] \in DOMAIN ccl.networkAddress
                /\ ccl.networkAddress[ipOf[id]].ID = id

\* the /32 literals of the model inside the bridge subnet, the other literals
BridgeLiterals == {"172.17.0.2", "172.17.0.3", "172.17.0.9"}
OtherLiterals == {"8.8.8.8", "10.0.0.0/8", "172.16.0.0/12"}

\* C18: ParseAddress on a /32 literal of the bridge subnet fails when reverse
\* lookup is not allowed; when it is allowed it succeeds only if
\* networkAddress knows the address, and then the alias is the name of the
\* container of that address or, for the rule owner only, '.'; a literal outside
\* the bridge subnet or with another CIDR resolves with an empty alias
C18_BridgeLiteralNeedsReverseLookup ==
    [][answer'.op = "parse" =>
            /\ (answer'.key \in BridgeLiterals /\ ~answer'.online) =>
                    answer'.err = "trying to use Docker IPv4, use an alias instead"
            /\ (answer'.key \in BridgeLiterals /\ answer'.online) =>
                    IF answer'.key \in DOMAIN ccl'.networkAddress
                    THEN /\ answer'.err = nil
                         /\ answer'.alias \in {".", Name1(ccl'.networkAddress[answer'.key].ID)}
                         /\ answer'.alias = "." =>
                                ccl'.networkAddress[answer'.key].ID = answer'.self.ID
                    ELSE answer'.err = "address does not point to any container"
            /\ answer'.key \in OtherLiterals =>
                    answer'.err = nil /\ answer'.alias = ""]_vars

\* with reverse lookup allowed ParseAddress has resolved the bridge address of a
\* peer of the rule owner to the name of the peer
C18_Witness ==
    /\ answer.op = "parse" /\ answer.online /\ answer.err = nil
    /\ answer.key = "172.17.0.3" /\ answer.alias = "pa" /\ answer.self.ID = "idW"

-----------------------------------------------------------------------------
(* Properties of the start action *)

\* the calls of the start action that change a container or a file of the host
ChangesContainer(rcalls) ==
    \E i \in 1..Len(rcalls) :
        rcalls[i].op \in {"start", "pause", "unpause", "exec", "inject", "backup"}

\* C19: a dry-run start issues no start, pause or unpause, no exec and no write
\* of a hosts file in a container, writes no backupHostConfig.json, issues no
\* insert, append or delete of iptables, and leaves containers and iptables as
\* they were
C19_DryRunStartMutatesNothing ==
    [][(last'.op = "start" /\ last'.dryRun) =>
            /\ ~ChangesContainer(started'.rcalls)
            /\ ~IssuesMutation(last'.calls)
            /\ running' = running /\ paused' = paused /\ ipOf' = ipOf
            /\ etcHosts' = etcHosts
            /\ hostConfigs' = hostConfigs
            /\ backend' = backend]_vars

\* the containers a start was asked for, and the providers of links and volumes
\* of one of them that are not among them
Requested(ids) == {Resolve(ids[k]) : k \in 1..Len(ids)}
Providers(hc) ==
    {Resolve(hc.Links[i]) : i \in 1..Len(hc.Links)}
        \cup {Resolve(hc.VolumesFrom[i]) : i \in 1..Len(hc.VolumesFrom)}
MissingProviders(ids, d) ==
    UNION {Providers(d[id]) : id \in Requested(ids)} \ Requested(ids)

\* C20: when a container of the list links to, or takes volumes from, a
\* container outside the list, a start without --pull-deps fails with the
\* error of a container not specified in the list, before it starts or pauses
\* a container and before it calls iptables; with --pull-deps the start raises
\* no such error and the provider is a node of the graph
C20_MissingDependency ==
    [][(last'.op = "start" /\ MissingProviders(last'.ids, deps) # {}) =>
            IF last'.cmd[2] = ""
            THEN /\ last'.err = "is not specified in list and no --pull-deps specified"
                 /\ last'.code = 127
                 /\ started'.rcalls = <<>>
                 /\ last'.calls = <<>>
                 /\ running' = running /\ paused' = paused /\ ipOf' = ipOf
                 /\ backend' = backend /\ store' = store
            ELSE /\ last'.err # "is not specified in list and no --pull-deps specified"
                 /\ started'.reached
                 /\ MissingProviders(last'.ids, deps) \subseteq DOMAIN started'.lookup]_vars

\* a live start of pa and web without --pull-deps, one of which depends on pb,
\* has failed
C20_Witness ==
    /\ last.op = "start" /\ ~last.dryRun /\ last.cmd[2] = ""
    /\ last.ids = <<"pa", "web">>
    /\ MissingProviders(last.ids, deps) = {"idB"}
    /\ last.err = "is not specified in list and no --pull-deps specified"
    /\ last.code = 127

\* the calls of the loop over the sorted nodes: the calls before the first call
\* that is neither a start nor a pause
RECURSIVE DriveCalls(_)
DriveCalls(rcalls) ==
    IF rcalls = <<>> \/ Head(rcalls).op \notin {"start", "pause"} THEN <<>>
    ELSE <<Head(rcalls)>> \o DriveCalls(Tail(rcalls))

\* the nodes node n depends on
DependenciesOf(lookup, n) == {m \in DOMAIN lookup : n \in Members(lookup[m].children)}

HasCall(rcalls, ops) == \E i \in 1..Len(rcalls) : rcalls[i].op \in ops

C23_StartedOrPausedKeepState ==
    [][last'.op = "start" =>
            \A id \in running \cup paused :
                /\ (id \in running') = (id \in running)
                /\ (id \in paused') = (id \in paused)]_vars

-----------------------------------------------------------------------------
(* Properties of the drop action *)

\* the containers a drop was asked for
Dropped(ids) == {OwnerOf(ids[k]).ID : k \in 1..Len(ids)}

\* C24: a drop leaves the rule file of a listed container without persisted
\* rules as it was; a drop of containers that all have no persisted rules
\* returns success, calls iptables not at all and writes or removes no file
C24_DropOfNothing ==
    [][last'.op = "drop" =>
            /\ \A id \in Dropped(last'.ids) :
                  store[id].Rules = <<>> => store'[id] = store[id]
            /\ (\A id \in Dropped(last'.ids) : store[id].Rules = <<>>) =>
                  /\ last'.err = nil /\ last'.code = 0
                  /\ last'.calls = <<>>
                  /\ backend' = backend /\ store' = store]_vars

\* a drop of web, which has no rule file, has returned success
C24_Witness ==
    /\ last.op = "drop" /\ last.ids = <<"web">>
    /\ last.err = nil /\ last.calls = <<>>
    /\ ~store["idW"].exists

\* C25: once a drop has returned success, a delete of iptables has been
\* attempted for every rule that was persisted for a listed container, and
\* no listed container has a rule file
C25_DropRemovesEverything ==
    [][(last'.op = "drop" /\ last'.err = nil) =>
            \A id \in Dropped(last'.ids) :
                /\ ~store'[id].exists
                /\ \A i \in 1..Len(store[id].Rules) :
                      \E k \in 1..Len(last'.calls) :
                          /\ last'.calls[k].op = "D"
                          /\ last'.calls[k].rule = Format(UnmarshalRule(store[id].Rules[i]))]_vars

-----------------------------------------------------------------------------
(* Properties of a replay after an interrupted replay *)

\* a process that finds the iptables rules and the files process p has left
ProcessAfter(p) == [Process(0) EXCEPT !.fw = p.fw, !.files = p.files]

\* the process has changed iptables
HasMutated(p) == \E k \in 1..Len(p.calls) : Mutating(p.calls[k]) /\ p.calls[k].ok

\* process p leaves iptables with the current form of every rule persisted for
\* the containers of ids, and the files with the current addresses
Healed(p, ids) ==
    \A k \in 1..Len(ids) :
        \A i \in 1..Len(p.files[OwnerOf(ids[k]).ID].Rules) :
            /\ Format(Reresolved(p.files[OwnerOf(ids[k]).ID].Rules[i], OwnerOf(ids[k])))
                  \in p.fw
            /\ p.files[OwnerOf(ids[k]).ID].Rules[i]
                  = MarshalRule(Reresolved(p.files[OwnerOf(ids[k]).ID].Rules[i],
                                           OwnerOf(ids[k])))

\* the live replay of ids in which iptables rejects insert or append number k
\* has changed iptables and then failed on that call, where a live replay
\* without the rejection returns success
Interrupted(ids, k) ==
    /\ ReplayRules(Process(k), Runtime, ids, FALSE).code \in {5, 6}
    /\ HasMutated(ReplayRules(Process(k), Runtime, ids, FALSE).p)
    /\ ReplayRules(Process(0), Runtime, ids, FALSE).err = nil

\* the live replay that follows the interrupted one
ReplayedAgain(ids, k) ==
    ReplayRules(ProcessAfter(ReplayRules(Process(k), Runtime, ids, FALSE).p), Runtime, ids,
                FALSE)

\* C26: a live replay that follows a live replay interrupted by a rejected
\* insert or append, after a change of iptables and before the save, returns
\* success and leaves iptables with the current form of every persisted rule
\* and the files with the current addresses
C26_InterruptedReplayHeals ==
    \A ids \in IdLists, k \in 1..MaxRules :
        Interrupted(ids, k) =>
            /\ ReplayedAgain(ids, k).err = nil
            /\ Healed(ReplayedAgain(ids, k).p, ids)

-----------------------------------------------------------------------------
(* Properties of the best-effort delete of a live replay *)

\* a delete of the calls has failed
DeleteFailed(calls) == \E k \in 1..Len(calls) : calls[k].op = "D" /\ ~calls[k].ok

\* after every failed delete the calls go on with the check of a rule and, when
\* the check finds it missing, with its insert or append
AppliedAfterFailedDelete(calls) ==
    \A k \in 1..Len(calls) :
        (calls[k].op = "D" /\ ~calls[k].ok) =>
            /\ k + 1 <= Len(calls)
            /\ calls[k + 1].op = "C" /\ calls[k + 1].rule # calls[k].rule
            /\ \/ calls[k + 1].ok
               \/ /\ k + 3 <= Len(calls)
                  /\ calls[k + 3].op \in {"I", "A"}
                  /\ calls[k + 3].rule = calls[k + 1].rule

\* the replay failed on a lookup, on a rule file, on an address, or on the
\* insert or append that is the last call
FailedOtherwise(code, calls) ==
    \/ code \in {1, 2, 3, 4}
    \/ /\ code \in {5, 6}
       /\ Len(calls) > 0
       /\ calls[Len(calls)].op \in {"I", "A"} /\ ~calls[Len(calls)].ok

\* every rule persisted for the containers of ids has the current addresses
AddressesPersisted(files, ids) ==
    \A k \in 1..Len(ids) :
        \A i \in 1..Len(files[OwnerOf(ids[k]).ID].Rules) :
            files[OwnerOf(ids[k]).ID].Rules[i]
                = MarshalRule(Reresolved(files[OwnerOf(ids[k]).ID].Rules[i],
                                         OwnerOf(ids[k])))

\* C27: in a live replay, the failure of the delete of an old form is swallowed:
\* the replay returns no error because of it (any error it returns has another
\* cause), it goes on to check the new form and applies it when missing, and a
\* replay that meets no other failure returns success with the updated
\* addresses persisted
C27_FailedDeleteIsSwallowed ==
    [][(last'.op = "replay" /\ ~last'.dryRun /\ DeleteFailed(last'.calls)) =>
            /\ AppliedAfterFailedDelete(last'.calls)
            /\ last'.err # nil => FailedOtherwise(last'.code, last'.calls)
            /\ last'.err = nil =>
                  /\ last'.code = 0
                  /\ last'.saved # <<>>
                  /\ AddressesPersisted(store', last'.ids)]_vars

\* a live replay that could not delete the old form of a rule has appended the
\* new form, saved the rule file and returned success
C27_Witness ==
    /\ LiveReplayDone
    /\ DeleteFailed(last.calls)
    /\ \E k \in 1..Len(last.calls) : last.calls[k].op = "A" /\ last.calls[k].ok
    /\ last.saved # <<>>
    /\ AddressesPersisted(store, last.ids)

-----------------------------------------------------------------------------
(* Properties of the init action *)

\* C29: docker-fw init fails and changes nothing in iptables when the rule the
\* Docker daemon adds is absent, as it is after a successful init; when it
\* returns success that rule is no longer loaded and the rule for the internal
\* docker traffic is
C29_InitNeedsDockerRule ==
    [][last'.op = "init" =>
            /\ DockerRule \notin backend =>
                  /\ last'.err # nil
                  /\ ~IssuesMutation(last'.calls)
                  /\ backend' = backend
            /\ last'.err = nil =>
                  /\ DockerRule \notin backend'
                  /\ InternalTrafficRule \in backend'
                  /\ InitializeFirewall(Process(0), nil).err = nil
                  /\ InitializeFirewall([Process(0) EXCEPT !.fw = backend'], nil).err # nil]_vars

\* docker-fw init has failed for the missing Docker rule on the iptables a
\* successful init has left, rules of containers being loaded too
C29_Witness ==
    /\ last.op = "init" /\ last.err = "Could not find docker-added rule"
    /\ InternalTrafficRule \in backend
    /\ DockerRule \notin backend
    /\ \E rule \in backend : rule[1] = DOCKER_CHAIN

-----------------------------------------------------------------------------
(* The state machine of two docker-fw add processes for the same container  *)
(* that run side by side: each one applies its rule to iptables, loads the  *)
(* rule file and saves it; nothing in the code keeps the two apart          *)

\* command lines of the two processes
RaceCommands == {<<"add-internal", "pa", ".">>, <<"add-internal", "pb", ".">>,
                 <<"add-input", ".", "pa">>, <<"add", "8.8.8.8", ".">>}

\* a process that has not begun; c is the collection it holds once loaded
NewAdd(cmd) == [cmd |-> cmd, pc |-> "apply", c |-> [cid |-> "", Rules |-> <<>>]]

AddsDone(i, pc, c, step) ==
    [procs |-> [adds.procs EXCEPT ![i].pc = pc, ![i].c = c],
     trace |-> Append(adds.trace, <<i, step>>)]

InitRace ==
    /\ ipOf = [id \in CIDs |-> CASE id = "idW" -> "172.17.0.2"
                                 [] id = "idA" -> "172.17.0.3"
                                 [] OTHER -> "172.17.0.4"]
    /\ backend = {}
    /\ store = [id \in CIDs |-> NoFile]
    /\ last = Idle
    /\ deps = [id \in CIDs |-> NoDeps]
    /\ netPorts = NoPortReports
    /\ running = CIDs
    /\ paused = {}
    /\ started = NoStart
    /\ hostConfigs = [id \in CIDs |-> NoSnapshot]
    /\ ccl = EmptyCcl
    /\ answer = NoAnswer
    /\ customHosts = NoCustomHosts
    /\ etcHosts = NoHostsLines
    /\ \E c1 \in RaceCommands, c2 \in RaceCommands :
          adds = [procs |-> <<NewAdd(c1), NewAdd(c2)>>, trace |-> <<>>]

\* addFirewallRule, AddInputRule, AddInternalRule up to recordRule: the rule is
\* inserted or appended
applyRule(p, addedRule) ==
    IF addedRule.Chain = DOCKER_CHAIN THEN internalAppend(p, "web", Format(addedRule))
    ELSE internalInsert(p, Position(addedRule), Format(addedRule))

\* process i runs its add action up to the insert or append of its rule
RaceApply(i) ==
    /\ adds.procs[i].pc = "apply"
    /\ \E fail \in {0, 1} :
        \E a \in {applyRule(Process(fail), TrackedRule(adds.procs[i].cmd))} :
           /\ backend' = a.p.fw
           /\ adds' = AddsDone(i, IF a.err = nil THEN "load" ELSE "failed",
                               adds.procs[i].c, "apply")
    /\ UNCHANGED netPorts
    /\ UNCHANGED <<ipOf, store, last, deps, running, paused, started, hostConfigs, ccl,
                   answer, customHosts, etcHosts>>

\* process i is in recordRule: LoadRules
RaceLoad(i) ==
    /\ adds.procs[i].pc = "load"
    /\ adds' = AddsDone(i, "save", LoadRules(Process(0), OwnerOf("web")).c, "load")
    /\ UNCHANGED netPorts
    /\ UNCHANGED <<ipOf, backend, store, last, deps, running, paused, started, hostConfigs,
                   ccl, answer, customHosts, etcHosts>>

\* process i is in recordRule: the rest of it, on the collection it has loaded
RaceSave(i) ==
    /\ adds.procs[i].pc = "save"
    /\ store' = recordLoaded(Process(0), adds.procs[i].c,
                             TrackedRule(adds.procs[i].cmd)).p.files
    /\ adds' = AddsDone(i, "done", adds.procs[i].c, "save")
    /\ UNCHANGED netPorts
    /\ UNCHANGED <<ipOf, backend, last, deps, running, paused, started, hostConfigs, ccl,
                   answer, customHosts, etcHosts>>

NextRace == \E i \in 1..2 : RaceApply(i) \/ RaceLoad(i) \/ RaceSave(i)

SpecRace == InitRace /\ [][NextRace]_vars

\* where the step of process i is in the trace, 0 when it has not been taken
RECURSIVE StepAt(_, _, _)
StepAt(i, step, k) ==
    IF k = 0 THEN 0
    ELSE IF adds.trace[k] = <<i, step>> THEN k ELSE StepAt(i, step, k - 1)
At(i, step) == StepAt(i, step, Len(adds.trace))

\* both processes have run to the end, for two distinct rules
BothAdded ==
    /\ adds.procs[1].pc = "done" /\ adds.procs[2].pc = "done"
    /\ ~alreadyTracked(TrackedRule(adds.procs[1].cmd), TrackedRule(adds.procs[2].cmd))

\* both processes have loaded the rule file before either has saved it
BothLoadBeforeSave ==
    \A i \in 1..2, j \in 1..2 : At(i, "load") < At(j, "save")

\* the rule of process i is in the rule file of the container
Persisted(i) ==
    \E n \in 1..Len(store["idW"].Rules) :
        store["idW"].Rules[n] = MarshalRule(TrackedRule(adds.procs[i].cmd))

\* C28: nothing keeps two add invocations for the same container apart: when
\* both load the rule file before either saves it, both rules are applied to
\* iptables and the rule file lacks one of the two
C28_ConcurrentAddsLoseARule ==
    (BothAdded /\ BothLoadBeforeSave) =>
        /\ \A i \in 1..2 : Format(TrackedRule(adds.procs[i].cmd)) \in backend
        /\ \E i \in 1..2 : ~Persisted(i)
        /\ Len(store["idW"].Rules) = 1

\* two add processes have interleaved for the rules of pa and pb: both rules
\* are in iptables, the rule file holds the rule of pb only
C28_Witness ==
    /\ BothAdded /\ BothLoadBeforeSave
    /\ adds.procs[1].cmd = <<"add-internal", "pa", ".">>
    /\ adds.procs[2].cmd = <<"add-internal", "pb", ".">>
    /\ At(1, "save") < At(2, "save")
    /\ \A i \in 1..2 : Format(TrackedRule(adds.procs[i].cmd)) \in backend
    /\ ~Persisted(1) /\ Persisted(2)

-----------------------------------------------------------------------------
(* The state machine of the hosts-overlay injector: one run of              *)
(* reapplyCustomHosts on a target, for several states of the containers and *)
(* every combination of failing calls                                       *)

\* the calls of updateHosts that may fail: Docker.UnpauseContainer, containerExec
\* (error, or exit code not 0), containerInject, Docker.PauseContainer
HostsFailures == {"unpause", "exec", "exit", "inject", "pause"}

\* /etc/hosts of web before the run: as Docker writes it; with a comment and
\* the line of pa at an address pa has not; with the names of pa and pb on one
\* line; with two lines of pa, the first at an address pa has not
HostsFiles ==
    {<<<<"127.0.0.1", "localhost">>>>,
     <<<<"127.0.0.1", "localhost">>, <<"#", "peers">>, <<"172.17.0.4", "pa">>>>,
     <<<<"127.0.0.1", "localhost">>, <<"172.17.0.4", "pa", "pb">>>>,
     <<<<"127.0.0.1", "localhost">>, <<"172.17.0.4", "pa">>, <<"172.17.0.3", "pa">>>>}

\* targets of the injector
HostsTargets == {"web", "pa", "pb"}

InitHosts ==
    /\ ipOf \in {[idW |-> "172.17.0.2", idA |-> "172.17.0.3", idB |-> "172.17.0.4"],
                 [idW |-> "172.17.0.2", idA |-> "", idB |-> "172.17.0.4"]}
    /\ backend = {}
    /\ store = [id \in CIDs |-> NoFile]
    /\ last = Idle
    /\ deps = [id \in CIDs |-> NoDeps]
    /\ netPorts = NoPortReports
    /\ running = {id \in CIDs : ipOf[id] # ""}
    /\ paused \in SUBSET running
    /\ started = NoStart
    /\ hostConfigs = [id \in CIDs |-> NoSnapshot]
    /\ ccl = EmptyCcl
    /\ answer = NoAnswer
    /\ customHosts \in CustomHostsFiles
    /\ etcHosts \in {[NoHostsLines EXCEPT !["idW"] = f] : f \in HostsFiles}
    /\ adds = NoAdds

\* what a run of the injector was given and what it did
HostsInvocation(target, rfail, res) ==
    [op |-> "hosts", cmd |-> NoCommand, ids |-> <<target>>, dryRun |-> FALSE,
     code |-> IF res.err = nil THEN 0 ELSE 1, err |-> res.err, calls |-> <<>>,
     saved |-> <<>>, rcalls |-> res.p.rcalls, rfail |-> rfail]

\* reapplyCustomHosts(target)
ReapplyHosts ==
    /\ last = Idle
    /\ \E target \in HostsTargets, rfail \in SUBSET HostsFailures :
        \E res \in {reapplyCustomHosts(ProcessFailing(rfail), Runtime, target)} :
           /\ paused' = res.rt.paused
           /\ etcHosts' = res.rt.hosts
           /\ last' = HostsInvocation(target, rfail, res)
    /\ UNCHANGED netPorts
    /\ UNCHANGED <<ipOf, backend, store, deps, running, started, hostConfigs, ccl, answer,
                   customHosts, adds>>

\* the containers whose custom hosts are updated, and the names given
UpdateTargets == {"web"}
UpdateHosts == {"pa", "pb"}

\* updateCustomHosts(target, b)
UpdateCustomHosts ==
    /\ last = Idle
    /\ \E target \in UpdateTargets, b \in UpdateHosts, rfail \in SUBSET HostsFailures :
        \E res \in {updateCustomHosts(ProcessFailing(rfail), Runtime, target, b)} :
           /\ paused' = res.rt.paused
           /\ etcHosts' = res.rt.hosts
           /\ customHosts' = res.p.chfiles
           /\ last' = [HostsInvocation(target, rfail, res) EXCEPT
                          !.op = "custom-host", !.ids = <<target, b>>]
    /\ UNCHANGED netPorts
    /\ UNCHANGED <<ipOf, backend, store, deps, running, started, hostConfigs, ccl, answer,
                   adds>>

NextHosts == ReapplyHosts \/ UpdateCustomHosts \/ Exit

SpecHosts == InitHosts /\ [][NextHosts]_vars

-----------------------------------------------------------------------------
(* The state machine of the host-config snapshots: save-hostconfig and start *)
(* on running containers, web having a snapshot of an earlier configuration  *)

\* the configuration of web the drifts are taken from
BackupBase == [NoDeps EXCEPT !.NetworkMode = "bridge", !.Links = <<"pa">>]

\* BackupBase and the configurations that differ from it in one field; the
\* last one is a container made over the API without a restart policy
BackupConfigs ==
    {BackupBase,
     [BackupBase EXCEPT !.NetworkMode = "host"],
     [BackupBase EXCEPT !.Links = <<"pb">>],
     [BackupBase EXCEPT !.Links = <<>>],
     [BackupBase EXCEPT !.DNS = <<"8.8.8.8">>],
     [BackupBase EXCEPT !.DNSSearch = <<"lan">>],
     [BackupBase EXCEPT !.ExtraHosts = <<"db:10.0.0.5">>],
     [BackupBase EXCEPT !.VolumesFrom = <<"pb">>],
     [BackupBase EXCEPT !.Binds = <<"/data:/data">>],
     [BackupBase EXCEPT !.CapAdd = <<"NET_ADMIN">>],
     [BackupBase EXCEPT !.CapDrop = <<"MKNOD">>],
     [BackupBase EXCEPT !.PublishAllPorts = TRUE],
     [BackupBase EXCEPT !.RestartPolicy = [Name |-> "always"]],
     [BackupBase EXCEPT !.Privileged = TRUE],
     [BackupBase EXCEPT !.RestartPolicy = [Name |-> ""]]}

\* port 80/tcp bound to hostPort of hostIP
Published(hostIP, hostPort) == "80/tcp" :> <<[HostIP |-> hostIP, HostPort |-> hostPort]>>

\* port 80/tcp exposed and not published
Exposed == "80/tcp" :> <<>>

\* HostConfig.PortBindings as declared and NetworkSettings.Ports as the runtime
\* reports them for it: no port; a port the image exposes; -p 8080:80;
\* -p 0.0.0.0:8080:80; -p 80 with the host port the runtime picks
PortPairs ==
    {[declared |-> NoPorts, reported |-> NoPorts],
     [declared |-> NoPorts, reported |-> Exposed],
     [declared |-> Published("", "8080"), reported |-> Published("0.0.0.0", "8080")],
     [declared |-> Published("0.0.0.0", "8080"), reported |-> Published("0.0.0.0", "8080")],
     [declared |-> Published("", ""), reported |-> Published("0.0.0.0", "49153")]}

\* the snapshots of web an earlier run may have left
SavedConfigs ==
    BackupConfigs \cup {[BackupBase EXCEPT !.PortBindings = b] :
                           b \in {pp.declared : pp \in PortPairs} \cup
                                 {pp.reported : pp \in PortPairs}}

InitBackup ==
    /\ ipOf = [idW |-> "172.17.0.2", idA |-> "172.17.0.3", idB |-> "172.17.0.4"]
    /\ backend = {}
    /\ store = [id \in CIDs |-> NoFile]
    /\ last = Idle
    /\ \E c \in BackupConfigs, pp \in PortPairs :
          /\ c = BackupBase \/ pp.reported = NoPorts
          /\ deps = [[id \in CIDs |-> NoDeps] EXCEPT
                        !["idW"] = [c EXCEPT !.PortBindings = pp.declared]]
          /\ netPorts = [NoPortReports EXCEPT !["idW"] = pp.reported]
    /\ running = CIDs
    /\ paused = {}
    /\ started = NoStart
    /\ hostConfigs \in {[[id \in CIDs |-> NoSnapshot] EXCEPT !["idW"] = h] :
                           h \in {NoSnapshot} \cup
                                 {[exists |-> TRUE, HostConfig |-> hc] : hc \in SavedConfigs}}
    /\ ccl = EmptyCcl
    /\ answer = NoAnswer
    /\ customHosts = NoCustomHosts
    /\ etcHosts = NoHostsLines
    /\ adds = NoAdds

\* docker-fw save-hostconfig <containers>
SaveHostConfig ==
    /\ last = Idle
    /\ \E ids \in IdLists :
        \E res \in {BackupHostConfig(Process(0), Runtime, ids, TRUE, FALSE)} :
           /\ hostConfigs' = res.p.hcfiles
           /\ last' = Invocation("save-hostconfig", NoCommand, ids, FALSE,
                                 IF res.err = nil THEN 0 ELSE 2, res.err, res.p)
           /\ UNCHANGED netPorts
           /\ UNCHANGED <<adds, ipOf, backend, store, deps, running, paused, started, ccl,
                          answer, customHosts, etcHosts>>

NextBackup == SaveHostConfig \/ Start

SpecBackup == InitBackup /\ [][NextBackup]_vars

\* the number of pause calls among rcalls
RECURSIVE Pauses(_)
Pauses(rcalls) ==
    IF rcalls = <<>> THEN 0
    ELSE (IF Head(rcalls).op = "pause" THEN 1 ELSE 0) + Pauses(Tail(rcalls))

\* C30: when updateHosts has run on a target that was paused and the unpause
\* succeeded, its last call is the one pause of the target, whatever it returns;
\* when that pause fails the error returned is the error updateHosts would
\* have returned followed by the error of the pause; a target that was not
\* paused is never paused
C30_RepausedOnEveryPath ==
    [][(last'.op = "hosts" /\ last'.rcalls # <<>>) =>
            /\ (OwnerOf(last'.ids[1]).ID \in paused /\ "unpause" \notin last'.rfail) =>
                  /\ last'.rcalls[Len(last'.rcalls)]
                        = [op |-> "pause", id |-> OwnerOf(last'.ids[1]).ID]
                  /\ Pauses(last'.rcalls) = 1
                  /\ "pause" \notin last'.rfail => OwnerOf(last'.ids[1]).ID \in paused'
                  /\ "pause" \in last'.rfail =>
                        last'.err
                          = ErrorText(reapplyCustomHosts(
                                          ProcessFailing(last'.rfail \ {"pause"}), Runtime,
                                          last'.ids[1]).err)
                            \o "\nadditionally, an error while re-pausing container: "
                            \o "cannot pause container"
            /\ OwnerOf(last'.ids[1]).ID \notin paused =>
                  /\ Pauses(last'.rcalls) = 0
                  /\ OwnerOf(last'.ids[1]).ID \notin paused']_vars

\* the injector has run on web, which was paused: the lookup of the custom host
\* pa has failed, the pause that followed has failed too, and both errors are
\* returned
C30_Witness ==
    /\ last.op = "hosts" /\ last.ids = <<"web">>
    /\ last.rfail = {"pause"}
    /\ ipOf["idA"] = ""
    /\ last.rcalls = <<[op |-> "unpause", id |-> "idW"], [op |-> "exec", id |-> "idW"],
                       [op |-> "pause", id |-> "idW"]>>
    /\ last.err # nil
    /\ last.err # ErrorText(nil) \o "\nadditionally, an error while re-pausing container: "
                                \o "cannot pause container"

-----------------------------------------------------------------------------
(* Properties of the whole action surface: add, add-input, add-internal,     *)
(* add-two-ways, allow, replay                                              *)

\* the chains of the rules the actions persist
SurfaceChains == {"FORWARD", "INPUT", DOCKER_CHAIN}

\* every insert is positional for its chain, every append is to the DOCKER chain
AppliedByChain(calls) ==
    \A k \in 1..Len(calls) :
        /\ calls[k].op = "A" => calls[k].rule[1] = DOCKER_CHAIN
        /\ calls[k].op = "I" =>
              \/ calls[k].rule[1] = "FORWARD" /\ calls[k].pos = 2
              \/ calls[k].rule[1] = "INPUT" /\ calls[k].pos = 1

\* C31: a replay applies a missing rule with an append when its chain is DOCKER,
\* with an insert at position 2 when it is FORWARD and at position 1 when it is
\* INPUT; the actions persist rules of these three chains only, and no replay
\* ends in the panic of Position
C31_AppendOrPositionalInsert ==
    [][/\ \A id \in CIDs : \A i \in 1..Len(store'[id].Rules) :
              store'[id].Rules[i].Chain \in SurfaceChains
       /\ last'.op = "replay" =>
              /\ AppliedByChain(last'.calls)
              /\ last'.code # 99
              /\ last'.err # "panic"]_vars

\* a live replay has appended a rule to the DOCKER chain and inserted the rule
\* of an allow action at position 2 of the FORWARD chain
C31_Witness ==
    /\ LiveReplayDone
    /\ \E k \in 1..Len(last.calls) :
          last.calls[k].op = "A" /\ last.calls[k].ok /\ last.calls[k].rule[1] = DOCKER_CHAIN
    /\ \E k \in 1..Len(last.calls) :
          /\ last.calls[k].op = "I" /\ last.calls[k].ok /\ last.calls[k].pos = 2
          /\ last.calls[k].rule[1] = "FORWARD"
    /\ \E i \in 1..Len(store["idW"].Rules) :
          store["idW"].Rules[i].Filter = "! -i docker0 -o docker0"

\* the live replay of the first n of ids in which iptables rejects insert or
\* append number k (none when k = 0)
ReplayedUpTo(ids, n, k) == ReplayRules(Process(k), Runtime, SubSeq(ids, 1, n), FALSE)

\* a rule persisted for the container has a stored address that is not the one
\* its alias resolves to now
AddressDiffers(self) ==
    \E i \in 1..Len(store[self.ID].Rules) :
        Reresolved(store[self.ID].Rules[i], self) # UnmarshalRule(store[self.ID].Rules[i])

\* what C32 says of container number n of ids in that replay, when the
\* containers before it were processed without error
RewrittenIffChanged(ids, n, k) ==
    LET before == ReplayedUpTo(ids, n - 1, k)
        upto == ReplayedUpTo(ids, n, k)
        self == OwnerOf(ids[n])
    IN before.err = nil =>
          /\ upto.err # nil =>
                /\ upto.p.files = before.p.files
                /\ upto.p.saved = before.p.saved
                /\ ReplayedUpTo(ids, Len(ids), k).p.files = before.p.files
          /\ upto.err = nil =>
                /\ Len(upto.p.saved) > Len(before.p.saved) <=> AddressDiffers(self)
                /\ Len(upto.p.saved) <= Len(before.p.saved) + 1
                /\ \A id \in CIDs \ {self.ID} : upto.p.files[id] = before.p.files[id]
                /\ ~AddressDiffers(self) => upto.p.files = before.p.files

\* C32: a live replay rewrites the rule file of a container if and only if the
\* resolved address of one of its rules differs from the stored one, once all
\* its rules are processed without error; when a lookup, an insert or an
\* append fails for a container its rule file is left as it was
C32_RewrittenIffAddressChanged ==
    \A ids \in IdLists, k \in 0..1 :
        \A n \in 1..Len(ids) : RewrittenIffChanged(ids, n, k)

\* a peer of a rule of web has moved: the live replay of web rewrites the rule
\* file, the live replay whose append is rejected leaves it as it was
C32_Witness ==
    /\ AddressDiffers(OwnerOf("web"))
    /\ ReplayedUpTo(<<"web">>, 1, 0).err = nil
    /\ Len(ReplayedUpTo(<<"web">>, 1, 0).p.saved) = 1
    /\ ReplayedUpTo(<<"web">>, 1, 0).p.files # store
    /\ ReplayedUpTo(<<"web">>, 1, 1).code \in {5, 6}
    /\ ReplayedUpTo(<<"web">>, 1, 1).p.files = store
    /\ HasMutated(ReplayedUpTo(<<"web">>, 1, 1).p)

\* the rules the step has added to the rule file of container id
NewlyRecorded(id) ==
    {store'[id].Rules[i] : i \in 1..Len(store'[id].Rules)}
        \ {store[id].Rules[i] : i \in 1..Len(store[id].Rules)}

\* an insert or append of the calls was rejected
ApplyRejected(calls) ==
    \E k \in 1..Len(calls) : calls[k].op \in {"I", "A"} /\ ~calls[k].ok

\* the calls have found the rule loaded, or have loaded it, before the end
FoundOrApplied(calls, rule) ==
    \E k \in 1..Len(calls) :
        calls[k].rule = rule /\ calls[k].op \in {"C", "I", "A"} /\ calls[k].ok

C34_NoDuplicateRules ==
    \A id \in CIDs :
        \A i \in 1..Len(store[id].Rules), j \in 1..Len(store[id].Rules) :
            i # j => ~alreadyTracked(UnmarshalRule(store[id].Rules[i]),
                                     UnmarshalRule(store[id].Rules[j]))

-----------------------------------------------------------------------------
(* Properties of the host-config snapshots *)

DriftError == "has inconsistently changed host configuration"

\* two lists hold the same entries, whatever their order
SameList(a, b) == areEquivalentSlices(a, b)

\* the saved configuration orig and the current one differ in a field asGoodAs
\* is to compare
Differs(orig, current) ==
    \/ orig.NetworkMode # current.NetworkMode
    \/ \E f \in {"Links", "DNS", "DNSSearch", "ExtraHosts", "VolumesFrom", "Binds",
                  "CapAdd", "CapDrop"} : ~SameList(orig[f], current[f])
    \/ normalized(orig).RestartPolicy.Name # current.RestartPolicy.Name
    \/ orig.Privileged # current.Privileged
    \/ orig.PublishAllPorts # current.PublishAllPorts
    \/ ~arePortBindingsEqual(orig.PortBindings, current.PortBindings)

\* container id has a snapshot that differs from its current configuration
Drifted(id) == hostConfigs[id].exists /\ Differs(hostConfigs[id].HostConfig, deps[id])

\* the first position of ids that names a drifted container, 0 if none does
FirstDrifted(ids) ==
    IF \E i \in 1..Len(ids) : Drifted(OwnerOf(ids[i]).ID)
    THEN CHOOSE i \in 1..Len(ids) :
            /\ Drifted(OwnerOf(ids[i]).ID)
            /\ \A j \in 1..(i - 1) : ~Drifted(OwnerOf(ids[j]).ID)
    ELSE 0

\* C35: a start that is not a dry run, on containers of which one has a
\* snapshot differing from its current host configuration in a compared field
\* (a list that was empty when saved and is not empty now included), returns
\* an error, leaves that snapshot as it was and saves no snapshot for the
\* containers listed after it
C35_DriftIsFatal ==
    [][(last'.op = "start" /\ ~last'.dryRun /\ FirstDrifted(last'.ids) # 0) =>
          /\ last'.err # nil
          /\ \A i \in FirstDrifted(last'.ids)..Len(last'.ids) :
                hostConfigs'[OwnerOf(last'.ids[i]).ID] = hostConfigs[OwnerOf(last'.ids[i]).ID]
      ]_vars

\* what save-hostconfig writes for container id as it is now
SavedNow(id) ==
    [exists |-> TRUE, HostConfig |-> mergedHostConfig(Descriptor(Runtime, id, 0), TRUE)]

\* every snapshot is the one save-hostconfig writes for the container as it is
JustSaved == \A id \in CIDs : hostConfigs[id].exists => hostConfigs[id] = SavedNow(id)

\* C36: save-hostconfig writes the configuration of each container with the
\* ports of the network settings merged in, and a start that follows on the
\* unchanged containers, web having a restart policy, never reports a changed
\* host configuration
C36_NoFalseDrift ==
    [][/\ (last'.op = "save-hostconfig" /\ last'.err = nil) =>
            \A i \in 1..Len(last'.ids) :
                hostConfigs'[OwnerOf(last'.ids[i]).ID] = SavedNow(OwnerOf(last'.ids[i]).ID)
       /\ (/\ last'.op = "start" /\ ~last'.dryRun
           /\ JustSaved /\ hostConfigs["idW"].exists
           /\ deps["idW"].RestartPolicy.Name # "") =>
            last'.err # DriftError
      ]_vars

-----------------------------------------------------------------------------
(* Properties of the dependencies a start pulls in *)

\* C37: in a live start with --pull-deps that has sorted its graph, every
\* container the loop over the sorted nodes starts has each provider of its
\* links and volumes, as the runtime reports them, among the nodes and before
\* it in the sorted order, the providers of pulled-in containers included
C37_PulledDependenciesComeFirst ==
    [][(/\ last'.op = "start" /\ ~last'.dryRun /\ last'.cmd[2] = "--pull-deps"
        /\ started'.reached /\ ~started'.panic) =>
            \A i \in 1..Len(DriveCalls(started'.rcalls)) :
                started'.rcalls[i].op = "start" =>
                    \A m \in Providers(deps[started'.rcalls[i].id]) :
                        /\ m \in DOMAIN started'.lookup
                        /\ PlaceOf(started'.sorted, m)
                              < PlaceOf(started'.sorted, started'.rcalls[i].id)
      ]_vars

-----------------------------------------------------------------------------
(* Properties of the hosts files and of the custom hosts *)

\* the line fields gives name an address
Names(fields, name) == fields[1] # "#" /\ inArray(Tail(fields), name)

\* a is b without some of its lines
RECURSIVE IsSubsequence(_, _)
IsSubsequence(a, b) ==
    IF a = <<>> THEN TRUE
    ELSE IF b = <<>> THEN FALSE
    ELSE IF Head(a) = Head(b) THEN IsSubsequence(Tail(a), Tail(b))
    ELSE IsSubsequence(a, Tail(b))

\* the lines of file that name none of the custom hosts ch
OtherLines(file, ch) ==
    SelectSeq(file, LAMBDA fields : \A i \in 1..Len(ch) : ~Names(fields, ch[i]))

\* the hosts file of a container maps each of the custom hosts ch to its
\* address, and maps none of them to another address
MapsCustomHosts(file, ch) ==
    \A i \in 1..Len(ch) :
        /\ \E k \in 1..Len(file) :
              Names(file[k], ch[i]) /\ file[k][1] = ipOf[Resolve(ch[i])]
        /\ \A k \in 1..Len(file) :
              Names(file[k], ch[i]) => file[k][1] = ipOf[Resolve(ch[i])]

\* C38: when the custom hosts of a target have been reapplied with success,
\* the hosts file of the target has for each of them a line with its address,
\* has no line that gives one of them another address, and has kept, in their
\* order, the lines that named none of them
C38_HostsFileMapsCustomHosts ==
    [][(last'.op = "hosts" /\ last'.err = nil) =>
          /\ MapsCustomHosts(etcHosts'[Resolve(last'.ids[1])],
                             customHosts[Resolve(last'.ids[1])])
          /\ IsSubsequence(OtherLines(etcHosts[Resolve(last'.ids[1])],
                                      customHosts[Resolve(last'.ids[1])]),
                           etcHosts'[Resolve(last'.ids[1])])
      ]_vars

\* no array of custom hosts holds a name twice
NoDuplicates(files) ==
    \A id \in CIDs : \A i, j \in 1..Len(files[id]) : files[id][i] = files[id][j] => i = j

\* the places of rcalls at which customHosts.json is written
SaveCalls(rcalls) == {i \in 1..Len(rcalls) : rcalls[i].op = "saveCustomHosts"}

\* C39: no customHosts.json ever holds a name twice; updateCustomHosts writes
\* the file of the target exactly when it returns no error and the name was not
\* in the file, as its last call and after the exec that read the hosts file of
\* the target, and then the file is the one before with the name at its end;
\* nothing else writes a customHosts.json; reapplyCustomHosts on a target
\* without custom hosts makes no call of the runtime and leaves the paused
\* containers and the hosts files as they were
C39_CustomHostsSavedOnceApplied ==
    [][/\ NoDuplicates(customHosts')
       /\ last'.op = "custom-host" =>
            /\ (SaveCalls(last'.rcalls) # {}) <=>
                  (last'.err = nil /\ ~inArray(customHosts[Resolve(last'.ids[1])], last'.ids[2]))
            /\ \A i \in SaveCalls(last'.rcalls) :
                  /\ i = Len(last'.rcalls)
                  /\ \E j \in 1..(i - 1) : last'.rcalls[j].op = "exec"
                  /\ last'.rfail \cap {"exec", "exit"} = {}
            /\ customHosts' =
                  IF SaveCalls(last'.rcalls) # {}
                  THEN [customHosts EXCEPT ![Resolve(last'.ids[1])] = Append(@, last'.ids[2])]
                  ELSE customHosts
       /\ last'.op # "custom-host" => customHosts' = customHosts
       /\ (last'.op = "hosts" /\ customHosts[Resolve(last'.ids[1])] = <<>>) =>
            /\ last'.rcalls = <<>>
            /\ paused' = paused
            /\ etcHosts' = etcHosts
      ]_vars

\* pb has been added to the custom hosts of web, which was paused and held pa:
\* web was unpaused, its hosts file read and written, web paused again, and
\* then customHosts.json written
C39_Witness ==
    /\ last.op = "custom-host" /\ last.err = nil /\ last.ids = <<"web", "pb">>
    /\ customHosts["idW"] = <<"pa", "pb">>
    /\ Len(last.rcalls) = 5
    /\ last.rcalls[5] = [op |-> "saveCustomHosts", id |-> "idW"]
    /\ "idW" \in paused

-----------------------------------------------------------------------------
(* Properties of the ls action *)

\* the containers ls is to list: the ones given, every container when none is
Selected(ids) == IF ids = <<>> THEN CIDs ELSE {Resolve(ids[k]) : k \in 1..Len(ids)}

\* the number of rules in the rule files of the containers of S
RECURSIVE RulesOf(_)
RulesOf(S) ==
    IF S = {} THEN 0
    ELSE LET id == CHOOSE x \in S : TRUE
         IN (IF store[id].exists THEN Len(store[id].Rules) ELSE 0) + RulesOf(S \ {id})

\* C40: ls ends without a panic and prints one command line for each rule in
\* the rule files of the containers it lists, whatever the add actions have
\* stored as aliases
C40_ListsEveryRule ==
    [][last'.op = "ls" =>
          /\ last'.err # "panic: nil pointer dereference"
          /\ last'.err = nil =>
                /\ last'.code = 0
                /\ Len(last'.out) = RulesOf(Selected(last'.ids))
      ]_vars

====
